---- MODULE Spec2Model ----
(***************************************************************************)
(* Model of the transaction codecs (Binary, CSV, Text, MT940) and of the   *)
(* comparer front end of the parser library.                               *)
(*                                                                         *)
(* A string is a sequence of one-character strings; a byte stream is a     *)
(* sequence of integers 0..255.  Every codec function is an operator that  *)
(* computes what the Rust function computes, character by character; the   *)
(* actions apply them to inputs drawn from bounded sets.                   *)
(***************************************************************************)
EXTENDS Integers, Sequences, FiniteSets, TLC

VARIABLES
    pc,        \* position of the driver: "start", "written", "parsed", ...
    records,   \* the Vec<Transaction> handed to a writer
    wire,      \* the sink / source: bytes (Binary) or characters (CSV, Text)
    result,    \* outcome of parse_records
    result2,   \* outcome of the second parse of a conversion
    raw,       \* the hand-written pieces (fields, lines) an input file was made of
    cmp,       \* comparer process: arguments, verdict and exit status
    mt         \* MT940 parser loop: line_number, current_record, has_61_field, transactions

vars == <<pc, records, wire, result, result2, raw, cmp, mt>>

-----------------------------------------------------------------------------
(* Bounds of the model *)

MaxRecords == 2
MaxDescLen == 3

-----------------------------------------------------------------------------
(* Characters and string helpers (std::str) *)

QUOTE == "\""
COMMA == ","
NL    == "\n"
CR    == "\r"
SP    == " "
BSL   == "\\"
HASH  == "#"
COLON == ":"

\* char::is_whitespace restricted to the characters of the model
Whitespace == {SP, NL, CR, "\t"}

RECURSIVE TrimStart(_)
TrimStart(s) ==
    IF s # <<>> /\ Head(s) \in Whitespace THEN TrimStart(Tail(s)) ELSE s

RECURSIVE TrimEnd(_)
TrimEnd(s) ==
    IF s # <<>> /\ s[Len(s)] \in Whitespace
    THEN TrimEnd(SubSeq(s, 1, Len(s) - 1))
    ELSE s

\* str::trim
Trim(s) == TrimEnd(TrimStart(s))

StartsWith(s, c) == s # <<>> /\ Head(s) = c
EndsWith(s, c)   == s # <<>> /\ s[Len(s)] = c

\* All strings over alphabet A of length at most n
StringsUpTo(A, n) == UNION {[1..k -> A] : k \in 0..n}

RECURSIVE Concat(_)
Concat(ss) == IF ss = <<>> THEN <<>> ELSE Head(ss) \o Concat(Tail(ss))

\* a string literal of the source, as a sequence of its characters
Str(lit) ==
    CASE lit = "DEPOSIT"    -> <<"D","E","P","O","S","I","T">>
      [] lit = "TRANSFER"   -> <<"T","R","A","N","S","F","E","R">>
      [] lit = "WITHDRAWAL" -> <<"W","I","T","H","D","R","A","W","A","L">>
      [] lit = "SUCCESS"    -> <<"S","U","C","C","E","S","S">>
      [] lit = "FAILURE"    -> <<"F","A","I","L","U","R","E">>
      [] lit = "PENDING"    -> <<"P","E","N","D","I","N","G">>
      [] lit = "TX_ID"        -> <<"T","X","_","I","D">>
      [] lit = "TX_TYPE"      -> <<"T","X","_","T","Y","P","E">>
      [] lit = "FROM_USER_ID" -> <<"F","R","O","M","_","U","S","E","R","_","I","D">>
      [] lit = "TO_USER_ID"   -> <<"T","O","_","U","S","E","R","_","I","D">>
      [] lit = "AMOUNT"       -> <<"A","M","O","U","N","T">>
      [] lit = "TIMESTAMP"    -> <<"T","I","M","E","S","T","A","M","P">>
      [] lit = "STATUS"       -> <<"S","T","A","T","U","S">>
      [] lit = "DESCRIPTION"  -> <<"D","E","S","C","R","I","P","T","I","O","N">>
      [] lit = "Deposit"      -> <<"D","e","p","o","s","i","t">>
      [] lit = "Transfer"     -> <<"T","r","a","n","s","f","e","r">>
      [] lit = "Withdrawal"   -> <<"W","i","t","h","d","r","a","w","a","l">>

-----------------------------------------------------------------------------
(* Canonical record model (lib.rs) *)

TransactionType   == {"Deposit", "Transfer", "Withdrawal"}
TransactionStatus == {"Success", "Failure", "Pending"}

Transaction(id, ty, from, to, amt, ts, st, desc) ==
    [tx_id |-> id, tx_type |-> ty, from_user_id |-> from, to_user_id |-> to,
     amount |-> amt, timestamp |-> ts, status |-> st, description |-> desc]

\* outcome of a codec call: Ok(records), Err(ParserError::<error>(msg)) or a panic
Ok(recs)       == [kind |-> "Ok",    error |-> "",  msg |-> "",  records |-> recs]
Err(e, m)      == [kind |-> "Err",   error |-> e,   msg |-> m,   records |-> <<>>]
Panicked(m)    == [kind |-> "Panic", error |-> "",  msg |-> m,   records |-> <<>>]
NoResult       == [kind |-> "None",  error |-> "",  msg |-> "",  records |-> <<>>]

\* the MT940 parser is not running
NoMt940 == [line_number |-> 0, current_record |-> <<>>, has_61_field |-> FALSE,
            transactions |-> <<>>]

-----------------------------------------------------------------------------
(* Binary codec (binary_format.rs) *)

MAGIC == <<89, 80, 66, 78>>

MAX_DESC_LEN == 1048576

\* sum of the fixed fields: tx_id, tx_type, from, to, amount, timestamp, status, desc_len
fixed_size == 8 + 1 + 8 + 8 + 8 + 8 + 1 + 4

\* UTF-8 encoding of the (ASCII) characters of the model
CharCode(c) ==
    CASE c = NL    -> 10
      [] c = CR    -> 13
      [] c = "\t"  -> 9
      [] c = SP    -> 32
      [] c = QUOTE -> 34
      [] c = HASH  -> 35
      [] c = COMMA -> 44
      [] c = COLON -> 58
      [] c = BSL   -> 92
      [] c = "a"   -> 97
      [] c = "b"   -> 98

CodedChars == {NL, CR, "\t", SP, QUOTE, HASH, COMMA, COLON, BSL, "a", "b"}

CharOf(b) == CHOOSE c \in CodedChars : CharCode(c) = b

\* byteorder::WriteBytesExt, big-endian, w bytes
RECURSIVE BE(_, _)
BE(n, w) == IF w = 0 THEN <<>> ELSE Append(BE(n \div 256, w - 1), n % 256)

\* write_i64: two's complement, big-endian
I64Bytes(a) ==
    IF a >= 0 THEN BE(a, 8)
    ELSE LET m == BE((-a) - 1, 8) IN [i \in 1..8 |-> 255 - m[i]]

\* byteorder::ReadBytesExt, big-endian
RECURSIVE FromBE(_)
FromBE(bs) ==
    IF bs = <<>> THEN 0
    ELSE FromBE(SubSeq(bs, 1, Len(bs) - 1)) * 256 + bs[Len(bs)]

\* read_i64
FromI64(bs) ==
    IF bs[1] >= 128
    THEN -(FromBE([i \in 1..Len(bs) |-> 255 - bs[i]])) - 1
    ELSE FromBE(bs)

Take(bs, pos, n) == SubSeq(bs, pos + 1, pos + n)

TxTypeByte(t) == CASE t = "Deposit" -> 0 [] t = "Transfer" -> 1 [] t = "Withdrawal" -> 2
StatusByte(s) == CASE s = "Success" -> 0 [] s = "Failure" -> 1 [] s = "Pending" -> 2
TxTypeOfByte(b) == CHOOSE t \in TransactionType : TxTypeByte(t) = b
StatusOfByte(b) == CHOOSE s \in TransactionStatus : StatusByte(s) = b

\* a u32 field as two 16-bit halves (one 32-bit value does not fit the checker's integers)
Hi16(b4) == b4[1] * 256 + b4[2]
Lo16(b4) == b4[3] * 256 + b4[4]

\* variant: the cap is never applied
DescLenExceedsMax_Never(desc_len) == FALSE

\* desc_len > MAX_DESC_LEN, on the four bytes of the u32 desc_len
DescLenExceedsMax(desc_len) ==
    \/ Hi16(desc_len) > MAX_DESC_LEN \div 65536
    \/ Hi16(desc_len) = MAX_DESC_LEN \div 65536 /\ Lo16(desc_len) > MAX_DESC_LEN % 65536

\* record_size as u64 = fixed_size + desc_len as u64, on the bytes of the two u32 fields
SizeMatches(record_size, desc_len) ==
    LET lo == Lo16(desc_len) + fixed_size IN
    /\ Lo16(record_size) = lo % 65536
    /\ Hi16(record_size) = Hi16(desc_len) + lo \div 65536

\* `len as u32`: the low four bytes of a usize given as eight big-endian bytes
AsU32(len) == SubSeq(len, 5, 8)

\* read_exact of a desc_len-byte buffer fails when fewer than desc_len bytes remain
ReadsPastEnd(desc_len, remaining) ==
    \/ Hi16(desc_len) > remaining \div 65536
    \/ Hi16(desc_len) = remaining \div 65536 /\ Lo16(desc_len) > remaining % 65536

\* BinaryRecord::normalize_description: trim, then strip one layer of quotes.
\* The slice trimmed[1..trimmed.len() - 1] panics when trimmed is one quote
\* character (start 1 > end 0).
normalize_description(description) ==
    LET trimmed == Trim(description) IN
    IF StartsWith(trimmed, QUOTE) /\ EndsWith(trimmed, QUOTE)
    THEN IF 1 > Len(trimmed) - 1
         THEN [panic |-> TRUE,  value |-> <<>>]
         ELSE [panic |-> FALSE, value |-> SubSeq(trimmed, 2, Len(trimmed) - 1)]
    ELSE [panic |-> FALSE, value |-> trimmed]

FrOk(rec, next) == [kind |-> "Ok",    error |-> "", msg |-> "", rec |-> rec, next |-> next]
FrErr(e, m)     == [kind |-> "Err",   error |-> e,  msg |-> m,  rec |-> <<>>, next |-> 0]
FrPanic(m)      == [kind |-> "Panic", error |-> "", msg |-> m,  rec |-> <<>>, next |-> 0]

UnexpectedEof == FrErr("Io", "UnexpectedEof")

\* BinaryRecord::from_read on the stream bs, with pos bytes already consumed.
\* (checked_add of 46 and a u32 cannot overflow a u64: that branch is dead.)
from_read(bs, pos) ==
    LET have(n) == pos + n <= Len(bs) IN
    IF ~have(4) THEN UnexpectedEof
    ELSE IF Take(bs, pos, 4) # MAGIC THEN FrErr("Parse", "Invalid magic number")
    ELSE IF ~have(8) THEN UnexpectedEof
    ELSE IF ~have(16) THEN UnexpectedEof
    ELSE IF ~have(17) THEN UnexpectedEof
    ELSE IF bs[pos + 17] \notin {0, 1, 2} THEN FrErr("Parse", "Invalid TX_TYPE")
    ELSE IF ~have(25) THEN UnexpectedEof
    ELSE IF ~have(33) THEN UnexpectedEof
    ELSE IF ~have(41) THEN UnexpectedEof
    ELSE IF ~have(49) THEN UnexpectedEof
    ELSE IF ~have(50) THEN UnexpectedEof
    ELSE IF bs[pos + 50] \notin {0, 1, 2} THEN FrErr("Parse", "Invalid STATUS")
    ELSE IF ~have(54) THEN UnexpectedEof
    ELSE
      LET record_size == Take(bs, pos + 4, 4)
          desc_len_u32 == Take(bs, pos + 50, 4)
      IN
      IF ~SizeMatches(record_size, desc_len_u32) THEN FrErr("Parse", "Record size mismatch")
      ELSE IF DescLenExceedsMax(desc_len_u32) THEN FrErr("Parse", "Description too long")
      ELSE IF ReadsPastEnd(desc_len_u32, Len(bs) - (pos + 54)) THEN UnexpectedEof
      ELSE
        LET desc_len        == FromBE(desc_len_u32)
            description_buf == Take(bs, pos + 54, desc_len) IN
        IF \E i \in 1..desc_len : description_buf[i] >= 128
        THEN FrErr("Parse", "Invalid UTF-8 in description")
        ELSE
          LET description == [i \in 1..desc_len |-> CharOf(description_buf[i])]
              norm        == normalize_description(description)
          IN
          IF norm.panic THEN FrPanic("slice index starts at 1 but ends at 0")
          ELSE FrOk(Transaction(FromBE(Take(bs, pos + 8, 8)),
                                TxTypeOfByte(bs[pos + 17]),
                                FromBE(Take(bs, pos + 17, 8)),
                                FromBE(Take(bs, pos + 25, 8)),
                                FromI64(Take(bs, pos + 33, 8)),
                                FromBE(Take(bs, pos + 41, 8)),
                                StatusOfByte(bs[pos + 50]),
                                norm.value),
                    pos + 54 + desc_len)

\* the loop of BinaryParser::parse_records: every UnexpectedEof ends the list
RECURSIVE BinaryParseLoop(_, _, _)
BinaryParseLoop(bs, pos, acc) ==
    LET r == from_read(bs, pos) IN
    IF r.kind = "Ok" THEN BinaryParseLoop(bs, r.next, Append(acc, r.rec))
    ELSE IF r.kind = "Err" /\ r.error = "Io" /\ r.msg = "UnexpectedEof" THEN Ok(acc)
    ELSE IF r.kind = "Panic" THEN Panicked(r.msg)
    ELSE Err(r.error, r.msg)

\* BinaryParser::parse_records
BinaryParseRecords(bs) == BinaryParseLoop(bs, 0, <<>>)

WrOk(out)        == [kind |-> "Ok",  error |-> "", msg |-> "", out |-> out]
WrErr(e, m, out) == [kind |-> "Err", error |-> e,  msg |-> m,  out |-> out]

\* BinaryRecord::write_to up to the desc_len field, for a description of len bytes
\* (len is the usize self.description.len() as eight big-endian bytes).
\* (record_size > u32::MAX cannot happen once desc_len <= MAX_DESC_LEN.)
write_to_header(r, len) ==
    LET desc_len == AsU32(len) IN
    IF DescLenExceedsMax(desc_len)
    THEN WrErr("Parse", "Description too long", MAGIC)
    ELSE WrOk(MAGIC
              \o BE(fixed_size + FromBE(desc_len), 4)
              \o BE(r.tx_id, 8)
              \o <<TxTypeByte(r.tx_type)>>
              \o BE(r.from_user_id, 8)
              \o BE(r.to_user_id, 8)
              \o I64Bytes(r.amount)
              \o BE(r.timestamp, 8)
              \o <<StatusByte(r.status)>>
              \o desc_len)

\* BinaryRecord::write_to: the bytes it hands to the writer and its result;
\* the whole description follows the header when desc_len > 0
write_to(r) ==
    LET len == Len(r.description)
        h   == write_to_header(r, BE(len, 8))
    IN
    IF h.kind = "Err" THEN h
    ELSE WrOk(h.out \o [i \in 1..len |-> CharCode(r.description[i])])

\* BinaryParser::write_records: stops at the first failing record
RECURSIVE BinaryWriteLoop(_, _)
BinaryWriteLoop(recs, out) ==
    IF recs = <<>> THEN WrOk(out)
    ELSE LET w == write_to(Head(recs)) IN
         IF w.kind = "Ok" THEN BinaryWriteLoop(Tail(recs), out \o w.out)
         ELSE WrErr(w.error, w.msg, out \o w.out)

BinaryWriteRecords(recs) == BinaryWriteLoop(recs, <<>>)

-----------------------------------------------------------------------------
(* Text helpers shared by the CSV and Text codecs *)

Digits == <<"0", "1", "2", "3", "4", "5", "6", "7", "8", "9">>
DigitSet == {Digits[i] : i \in 1..10}
DigitValue(c) == (CHOOSE i \in 1..10 : Digits[i] = c) - 1

\* Display for u64
RECURSIVE FmtU64(_)
FmtU64(n) == IF n < 10 THEN <<Digits[n + 1]>> ELSE Append(FmtU64(n \div 10), Digits[(n % 10) + 1])

\* Display for i64
FmtI64(a) == IF a < 0 THEN <<"-">> \o FmtU64(-a) ELSE FmtU64(a)

RECURSIVE DigitsValue(_)
DigitsValue(ds) ==
    IF ds = <<>> THEN 0
    ELSE DigitsValue(SubSeq(ds, 1, Len(ds) - 1)) * 10 + DigitValue(ds[Len(ds)])

AllDigits(ds) == ds # <<>> /\ \A i \in 1..Len(ds) : ds[i] \in DigitSet

\* str::parse::<u64>: an optional '+', then one or more digits
\* (the inputs of the model stay far below u64::MAX)
ParseU64(s) ==
    LET body == IF StartsWith(s, "+") THEN Tail(s) ELSE s IN
    IF AllDigits(body) THEN [ok |-> TRUE, value |-> DigitsValue(body)]
    ELSE [ok |-> FALSE, value |-> 0]

\* str::parse::<i64>: an optional '+' or '-', then one or more digits
ParseI64(s) ==
    LET neg  == StartsWith(s, "-")
        body == IF StartsWith(s, "+") \/ neg THEN Tail(s) ELSE s
    IN
    IF AllDigits(body)
    THEN [ok |-> TRUE, value |-> IF neg THEN -DigitsValue(body) ELSE DigitsValue(body)]
    ELSE [ok |-> FALSE, value |-> 0]

\* str::lines: split at "\n", a "\r" right before the "\n" is dropped with it,
\* and a last line without terminator is a line unless it is empty
Lines(s) ==
    LET nls     == {i \in 1..Len(s) : s[i] = NL}
        n       == Cardinality(nls)
        NlAt(k) == IF k = 0 THEN 0
                   ELSE CHOOSE i \in nls : Cardinality({j \in nls : j <= i}) = k
        Strip(l) == IF EndsWith(l, CR) THEN SubSeq(l, 1, Len(l) - 1) ELSE l
        ended   == [k \in 1..n |-> Strip(SubSeq(s, NlAt(k - 1) + 1, NlAt(k) - 1))]
        last    == SubSeq(s, NlAt(n) + 1, Len(s))
    IN IF last = <<>> THEN ended ELSE Append(ended, last)

\* str::replace(pat, rep): the non-overlapping matches, left to right
RECURSIVE Replace(_, _, _)
Replace(s, pat, rep) ==
    IF Len(s) < Len(pat) THEN s
    ELSE IF SubSeq(s, 1, Len(pat)) = pat
         THEN rep \o Replace(SubSeq(s, Len(pat) + 1, Len(s)), pat, rep)
         ELSE <<Head(s)>> \o Replace(Tail(s), pat, rep)

\* fields joined by a separator
RECURSIVE Join(_, _)
Join(fs, sep) ==
    IF fs = <<>> THEN <<>>
    ELSE IF Len(fs) = 1 THEN fs[1]
    ELSE fs[1] \o sep \o Join(Tail(fs), sep)

TxTypeToken(t) ==
    CASE t = "Deposit" -> Str("DEPOSIT") [] t = "Transfer" -> Str("TRANSFER")
      [] t = "Withdrawal" -> Str("WITHDRAWAL")
StatusToken(st) ==
    CASE st = "Success" -> Str("SUCCESS") [] st = "Failure" -> Str("FAILURE")
      [] st = "Pending" -> Str("PENDING")

-----------------------------------------------------------------------------
(* CSV codec (csv_format.rs) *)

CsvHeaderNames ==
    <<Str("TX_ID"), Str("TX_TYPE"), Str("FROM_USER_ID"), Str("TO_USER_ID"),
      Str("AMOUNT"), Str("TIMESTAMP"), Str("STATUS"), Str("DESCRIPTION")>>

CsvHeaderLine == Join(CsvHeaderNames, <<COMMA>>)

\* CsvParser::escape_description: double every quote, wrap in quotes
CsvEscapeDescription(description) ==
    <<QUOTE>> \o Replace(description, <<QUOTE>>, <<QUOTE, QUOTE>>) \o <<QUOTE>>

\* CsvParser::unescape_description, applied to a field parse_line has already
\* unquoted.  trimmed[1..trimmed.len() - 1] panics when trimmed is one quote.
CsvUnescapeDescription(description) ==
    LET trimmed == Trim(description) IN
    IF StartsWith(trimmed, QUOTE) /\ EndsWith(trimmed, QUOTE)
    THEN IF 1 > Len(trimmed) - 1
         THEN [panic |-> TRUE, value |-> <<>>]
         ELSE [panic |-> FALSE,
               value |-> Replace(SubSeq(trimmed, 2, Len(trimmed) - 1), <<QUOTE, QUOTE>>, <<QUOTE>>)]
    ELSE [panic |-> FALSE, value |-> trimmed]

\* the scanner of CsvParser::parse_line; a run of characters that are neither
\* a quote nor a comma is pushed to current_field in one step
RECURSIVE CsvScan(_, _, _, _, _)
CsvScan(line, i, in_quotes, current_field, fields) ==
    IF i > Len(line)
    THEN [fields |-> Append(fields, current_field), in_quotes |-> in_quotes]
    ELSE
      LET ch      == line[i]
          special == {k \in i..Len(line) : line[k] \in {QUOTE, COMMA}}
          stop    == IF special = {} THEN Len(line) + 1
                     ELSE CHOOSE k \in special : \A m \in special : k <= m
      IN
      IF ch = QUOTE
      THEN IF in_quotes
           THEN IF i < Len(line) /\ line[i + 1] = QUOTE
                THEN CsvScan(line, i + 2, TRUE, Append(current_field, QUOTE), fields)
                ELSE CsvScan(line, i + 1, FALSE, current_field, fields)
           ELSE CsvScan(line, i + 1, TRUE, current_field, fields)
      ELSE IF ch = COMMA
      THEN IF in_quotes
           THEN CsvScan(line, i + 1, TRUE, Append(current_field, COMMA), fields)
           ELSE CsvScan(line, i + 1, FALSE, <<>>, Append(fields, current_field))
      ELSE CsvScan(line, stop, in_quotes, current_field \o SubSeq(line, i, stop - 1), fields)

\* CsvParser::parse_line
CsvParseLine(line) ==
    LET r == CsvScan(line, 1, FALSE, <<>>, <<>>) IN
    IF r.in_quotes THEN [ok |-> FALSE, msg |-> "Unclosed double quote", fields |-> <<>>]
    ELSE [ok |-> TRUE, msg |-> "", fields |-> r.fields]

\* CsvParser::validate_headers: "" when the header is the expected one
CsvValidateHeaders(headers) ==
    IF Len(headers) # Len(CsvHeaderNames) THEN "Expected 8 columns"
    ELSE IF \E i \in 1..Len(headers) : headers[i] # CsvHeaderNames[i]
         THEN "Column: expected name"
         ELSE ""

\* variant: an amount of zero passes the sign check
CsvValidateRecord_ZeroAllowed(tx_type, from_user_id, to_user_id, amount) ==
    IF amount < 0 THEN "AMOUNT must be positive in CSV format"
    ELSE IF tx_type = "Deposit" /\ from_user_id # 0 THEN "DEPOSIT must have FROM_USER_ID = 0"
    ELSE IF tx_type = "Withdrawal" /\ to_user_id # 0 THEN "WITHDRAWAL must have TO_USER_ID = 0"
    ELSE IF tx_type = "Transfer" /\ from_user_id = 0 THEN "TRANSFER cannot have FROM_USER_ID = 0"
    ELSE IF tx_type = "Transfer" /\ to_user_id = 0 THEN "TRANSFER cannot have TO_USER_ID = 0"
    ELSE ""

\* CsvParser::validate_record: "" when the business rules hold
CsvValidateRecord(tx_type, from_user_id, to_user_id, amount) ==
    IF amount <= 0 THEN "AMOUNT must be positive in CSV format"
    ELSE IF tx_type = "Deposit" /\ from_user_id # 0 THEN "DEPOSIT must have FROM_USER_ID = 0"
    ELSE IF tx_type = "Withdrawal" /\ to_user_id # 0 THEN "WITHDRAWAL must have TO_USER_ID = 0"
    ELSE IF tx_type = "Transfer" /\ from_user_id = 0 THEN "TRANSFER cannot have FROM_USER_ID = 0"
    ELSE IF tx_type = "Transfer" /\ to_user_id = 0 THEN "TRANSFER cannot have TO_USER_ID = 0"
    ELSE ""

RecOk(rec)   == [kind |-> "Ok",    msg |-> "", rec |-> rec]
RecErr(m)    == [kind |-> "Err",   msg |-> m,  rec |-> <<>>]
RecPanic(m)  == [kind |-> "Panic", msg |-> m,  rec |-> <<>>]

\* CsvParser::parse_record: the fields are decoded in column order, the first
\* failure is returned; the description is decoded before validate_record runs
CsvParseRecord(fields) ==
    IF Len(fields) # 8 THEN RecErr("Expected 8 fields")
    ELSE
      LET tx_id        == ParseU64(fields[1])
          from_user_id == ParseU64(fields[3])
          to_user_id   == ParseU64(fields[4])
          amount       == ParseI64(fields[5])
          timestamp    == ParseU64(fields[6])
          tx_type      == CHOOSE t \in TransactionType : TxTypeToken(t) = fields[2]
          status       == CHOOSE st \in TransactionStatus : StatusToken(st) = fields[7]
          description  == CsvUnescapeDescription(fields[8])
      IN
      IF ~tx_id.ok THEN RecErr("Invalid TX_ID")
      ELSE IF \A t \in TransactionType : TxTypeToken(t) # fields[2] THEN RecErr("Invalid TX_TYPE")
      ELSE IF ~from_user_id.ok THEN RecErr("Invalid FROM_USER_ID")
      ELSE IF ~to_user_id.ok THEN RecErr("Invalid TO_USER_ID")
      ELSE IF ~amount.ok THEN RecErr("Invalid AMOUNT")
      ELSE IF ~timestamp.ok THEN RecErr("Invalid TIMESTAMP")
      ELSE IF \A st \in TransactionStatus : StatusToken(st) # fields[7] THEN RecErr("Invalid STATUS")
      ELSE IF description.panic THEN RecPanic("slice index starts at 1 but ends at 0")
      ELSE
        LET v == CsvValidateRecord(tx_type, from_user_id.value, to_user_id.value, amount.value) IN
        IF v # "" THEN RecErr(v)
        ELSE RecOk(Transaction(tx_id.value, tx_type, from_user_id.value, to_user_id.value,
                               amount.value, timestamp.value, status, description.value))

\* the data-row loop of CsvParser::parse_records
RECURSIVE CsvRowLoop(_, _, _)
CsvRowLoop(lines, i, acc) ==
    IF i > Len(lines) THEN Ok(acc)
    ELSE IF Trim(lines[i]) = <<>> THEN CsvRowLoop(lines, i + 1, acc)
    ELSE
      LET fields == CsvParseLine(lines[i]) IN
      IF ~fields.ok THEN Err("Parse", fields.msg)
      ELSE
        LET r == CsvParseRecord(fields.fields) IN
        IF r.kind = "Err" THEN Err("Parse", r.msg)
        ELSE IF r.kind = "Panic" THEN Panicked(r.msg)
        ELSE CsvRowLoop(lines, i + 1, Append(acc, r.rec))

\* CsvParser::parse_records
CsvParseRecords(content) ==
    LET lines == Lines(content) IN
    IF lines = <<>> THEN Ok(<<>>)
    ELSE
      LET headers == CsvParseLine(lines[1]) IN
      IF ~headers.ok THEN Err("Parse", headers.msg)
      ELSE IF CsvValidateHeaders(headers.fields) # ""
           THEN Err("Parse", CsvValidateHeaders(headers.fields))
           ELSE CsvRowLoop(lines, 2, <<>>)

\* one data row of CsvParser::write_records
CsvRow(r) ==
    Join(<<FmtU64(r.tx_id), TxTypeToken(r.tx_type), FmtU64(r.from_user_id),
           FmtU64(r.to_user_id), FmtI64(r.amount), FmtU64(r.timestamp),
           StatusToken(r.status), CsvEscapeDescription(r.description)>>, <<COMMA>>)

\* CsvParser::write_records: header, then one line per record
CsvWriteRecords(recs) ==
    CsvHeaderLine \o <<NL>> \o Concat([i \in 1..Len(recs) |-> CsvRow(recs[i]) \o <<NL>>])

-----------------------------------------------------------------------------
(* Text codec (txt_format.rs) *)

LowerCase == <<"a","b","c","d","e","f","g","h","i","j","k","l","m",
               "n","o","p","q","r","s","t","u","v","w","x","y","z">>
UpperCase == <<"A","B","C","D","E","F","G","H","I","J","K","L","M",
               "N","O","P","Q","R","S","T","U","V","W","X","Y","Z">>

\* str::to_uppercase
ToUpper(s) ==
    [i \in 1..Len(s) |->
        IF \E k \in 1..26 : LowerCase[k] = s[i]
        THEN UpperCase[CHOOSE k \in 1..26 : LowerCase[k] = s[i]]
        ELSE s[i]]

\* index of the first c in s, 0 when there is none
FirstIndex(s, c) ==
    IF \E i \in 1..Len(s) : s[i] = c
    THEN CHOOSE i \in 1..Len(s) : s[i] = c /\ \A j \in 1..(i - 1) : s[j] # c
    ELSE 0

TextRequiredFields ==
    <<Str("TX_ID"), Str("TX_TYPE"), Str("FROM_USER_ID"), Str("TO_USER_ID"),
      Str("AMOUNT"), Str("TIMESTAMP"), Str("STATUS"), Str("DESCRIPTION")>>

\* the HashMap<String, String> current_record, as a sequence of <<key, value>>
ContainsKey(fields, key) == \E i \in 1..Len(fields) : fields[i][1] = key
Get(fields, key) == fields[CHOOSE i \in 1..Len(fields) : fields[i][1] = key][2]

\* TextParser::parse_key_value on a trimmed line: splitn(2, ':')
TextParseKeyValue(line) ==
    LET c == FirstIndex(line, COLON) IN
    IF c = 0 THEN [ok |-> FALSE, msg |-> "expected 'KEY: VALUE' format", key |-> <<>>, value |-> <<>>]
    ELSE
      LET key   == Trim(SubSeq(line, 1, c - 1))
          value == Trim(SubSeq(line, c + 1, Len(line)))
      IN IF key = <<>> THEN [ok |-> FALSE, msg |-> "empty key", key |-> <<>>, value |-> <<>>]
         ELSE [ok |-> TRUE, msg |-> "", key |-> key, value |-> value]

\* TextParser::escape_description: '"' becomes '\"'
TextEscapeDescription(description) == Replace(description, <<QUOTE>>, <<BSL, QUOTE>>)

\* TextParser::unescape_description: '\"' becomes '"'
TextUnescapeDescription(description) == Replace(description, <<BSL, QUOTE>>, <<QUOTE>>)

\* TextParser::parse_description
TextParseDescription(value) ==
    LET trimmed == Trim(value) IN
    IF ~(StartsWith(trimmed, QUOTE) /\ EndsWith(trimmed, QUOTE))
    THEN [ok |-> FALSE, msg |-> "DESCRIPTION must be in double quotes", value |-> <<>>]
    ELSE IF Len(trimmed) < 2
    THEN [ok |-> FALSE, msg |-> "DESCRIPTION too short", value |-> <<>>]
    ELSE [ok |-> TRUE, msg |-> "",
          value |-> TextUnescapeDescription(SubSeq(trimmed, 2, Len(trimmed) - 1))]

\* TextParser::parse_i64_field: strip a '#' comment, parse, require > 0
TextParseI64Field(value) ==
    LET h           == FirstIndex(value, HASH)
        clean_value == Trim(IF h = 0 THEN value ELSE SubSeq(value, 1, h - 1))
        amount      == ParseI64(clean_value)
    IN
    IF ~amount.ok THEN [ok |-> FALSE, msg |-> "invalid AMOUNT", value |-> 0]
    ELSE IF amount.value <= 0 THEN [ok |-> FALSE, msg |-> "AMOUNT must be positive", value |-> 0]
    ELSE [ok |-> TRUE, msg |-> "", value |-> amount.value]

\* TextParser::validate_record: "" when the id rules hold (_amount is not looked at)
TextValidateRecord(tx_type, from_user_id, to_user_id, amount) ==
    IF tx_type = "Deposit" /\ from_user_id # 0 THEN "DEPOSIT must have FROM_USER_ID = 0"
    ELSE IF tx_type = "Withdrawal" /\ to_user_id # 0 THEN "WITHDRAWAL must have TO_USER_ID = 0"
    ELSE IF tx_type = "Transfer" /\ from_user_id = 0 THEN "TRANSFER cannot have FROM_USER_ID = 0"
    ELSE IF tx_type = "Transfer" /\ to_user_id = 0 THEN "TRANSFER cannot have TO_USER_ID = 0"
    ELSE ""

\* TextParser::parse_record
TextParseRecord(fields) ==
    IF \E i \in 1..8 : ~ContainsKey(fields, TextRequiredFields[i])
    THEN RecErr("Missing required field")
    ELSE
      LET tx_id        == ParseU64(Get(fields, Str("TX_ID")))
          ty           == ToUpper(Get(fields, Str("TX_TYPE")))
          from_user_id == ParseU64(Get(fields, Str("FROM_USER_ID")))
          to_user_id   == ParseU64(Get(fields, Str("TO_USER_ID")))
          amount       == TextParseI64Field(Get(fields, Str("AMOUNT")))
          timestamp    == ParseU64(Get(fields, Str("TIMESTAMP")))
          st           == ToUpper(Get(fields, Str("STATUS")))
          description  == TextParseDescription(Get(fields, Str("DESCRIPTION")))
          tx_type      == CHOOSE t \in TransactionType : TxTypeToken(t) = ty
          status       == CHOOSE x \in TransactionStatus : StatusToken(x) = st
      IN
      IF ~tx_id.ok THEN RecErr("invalid TX_ID")
      ELSE IF \A t \in TransactionType : TxTypeToken(t) # ty THEN RecErr("invalid TX_TYPE")
      ELSE IF ~from_user_id.ok THEN RecErr("invalid FROM_USER_ID")
      ELSE IF ~to_user_id.ok THEN RecErr("invalid TO_USER_ID")
      ELSE IF ~amount.ok THEN RecErr(amount.msg)
      ELSE IF ~timestamp.ok THEN RecErr("invalid TIMESTAMP")
      ELSE IF \A x \in TransactionStatus : StatusToken(x) # st THEN RecErr("invalid STATUS")
      ELSE IF ~description.ok THEN RecErr(description.msg)
      ELSE
        LET v == TextValidateRecord(tx_type, from_user_id.value, to_user_id.value, amount.value) IN
        IF v # "" THEN RecErr(v)
        ELSE RecOk(Transaction(tx_id.value, tx_type, from_user_id.value, to_user_id.value,
                               amount.value, timestamp.value, status, description.value))

\* variant: a repeated key is never noticed
IsDuplicateField_Never(current_record, key) == FALSE

\* the test current_record.contains_key(&key) made before a line is inserted
IsDuplicateField(current_record, key) == ContainsKey(current_record, key)

RECURSIVE TextLineLoop(_, _, _, _)

\* the line loop with a comment line closing the record like a blank line
TextLineLoop_CommentSplits(lines, i, current_record, recs) ==
    IF i > Len(lines)
    THEN IF current_record # <<>>
         THEN LET r == TextParseRecord(current_record) IN
              IF r.kind = "Err" THEN Err("Parse", r.msg) ELSE Ok(Append(recs, r.rec))
         ELSE Ok(recs)
    ELSE
      LET trimmed == Trim(lines[i]) IN
      IF trimmed = <<>> \/ StartsWith(trimmed, HASH)
      THEN IF current_record # <<>>
           THEN LET r == TextParseRecord(current_record) IN
                IF r.kind = "Err" THEN Err("Parse", r.msg)
                ELSE TextLineLoop(lines, i + 1, <<>>, Append(recs, r.rec))
           ELSE TextLineLoop(lines, i + 1, current_record, recs)
      ELSE
        LET kv == TextParseKeyValue(trimmed) IN
        IF ~kv.ok THEN Err("Parse", kv.msg)
        ELSE IF IsDuplicateField(current_record, kv.key) THEN Err("Parse", "duplicate field")
        ELSE TextLineLoop(lines, i + 1, Append(current_record, <<kv.key, kv.value>>), recs)

\* the line loop of TextParser::parse_records, and the flush after the last line
TextLineLoop(lines, i, current_record, recs) ==
    IF i > Len(lines)
    THEN IF current_record # <<>>
         THEN LET r == TextParseRecord(current_record) IN
              IF r.kind = "Err" THEN Err("Parse", r.msg) ELSE Ok(Append(recs, r.rec))
         ELSE Ok(recs)
    ELSE
      LET trimmed == Trim(lines[i]) IN
      IF trimmed = <<>>
      THEN IF current_record # <<>>
           THEN LET r == TextParseRecord(current_record) IN
                IF r.kind = "Err" THEN Err("Parse", r.msg)
                ELSE TextLineLoop(lines, i + 1, <<>>, Append(recs, r.rec))
           ELSE TextLineLoop(lines, i + 1, current_record, recs)
      ELSE IF StartsWith(trimmed, HASH)
      THEN TextLineLoop(lines, i + 1, current_record, recs)
      ELSE
        LET kv == TextParseKeyValue(trimmed) IN
        IF ~kv.ok THEN Err("Parse", kv.msg)
        ELSE IF IsDuplicateField(current_record, kv.key) THEN Err("Parse", "duplicate field")
        ELSE TextLineLoop(lines, i + 1, Append(current_record, <<kv.key, kv.value>>), recs)

\* TextParser::parse_records
TextParseRecords(content) == TextLineLoop(Lines(content), 1, <<>>, <<>>)

KeyLine(key, value) == Str(key) \o <<COLON, SP>> \o value \o <<NL>>

\* what TextParser::write_records writes for the i-th record (i counted from 1)
TextBlock(i, r) ==
    (IF i > 1 THEN <<NL>> ELSE <<>>)
    \o <<HASH, SP, "R", "e", "c", "o", "r", "d", SP>> \o FmtU64(i)
    \o <<SP, "(">> \o Str(r.tx_type) \o <<")", NL>>
    \o KeyLine("TX_ID", FmtU64(r.tx_id))
    \o KeyLine("TX_TYPE", TxTypeToken(r.tx_type))
    \o KeyLine("FROM_USER_ID", FmtU64(r.from_user_id))
    \o KeyLine("TO_USER_ID", FmtU64(r.to_user_id))
    \o KeyLine("AMOUNT", FmtI64(r.amount))
    \o KeyLine("TIMESTAMP", FmtU64(r.timestamp))
    \o KeyLine("STATUS", StatusToken(r.status))
    \o KeyLine("DESCRIPTION", <<QUOTE>> \o TextEscapeDescription(r.description) \o <<QUOTE>>)

\* TextParser::write_records
TextWriteRecords(recs) == Concat([i \in 1..Len(recs) |-> TextBlock(i, recs[i])])

-----------------------------------------------------------------------------
(* Comparer (bin/comparer.rs) *)

Format == {"Csv", "Txt", "Bin"}

\* the parts of Args that decide the outcome
Args(format1, format2, ignore_description, ignore_status) ==
    [format1 |-> format1, format2 |-> format2,
     ignore_description |-> ignore_description, ignore_status |-> ignore_status]

\* a path on disk: whether it exists, and what it holds
File(content) == [exists |-> TRUE, content |-> content]
NoFile == [exists |-> FALSE, content |-> <<>>]

\* the comparison without the timestamp test
transactions_equal_NoTimestamp(tx1, tx2, args) ==
    IF tx1.tx_id # tx2.tx_id THEN FALSE
    ELSE IF tx1.tx_type # tx2.tx_type THEN FALSE
    ELSE IF tx1.from_user_id # tx2.from_user_id THEN FALSE
    ELSE IF tx1.to_user_id # tx2.to_user_id THEN FALSE
    ELSE IF tx1.amount # tx2.amount THEN FALSE
    ELSE IF ~args.ignore_status /\ tx1.status # tx2.status THEN FALSE
    ELSE IF ~args.ignore_description /\ tx1.description # tx2.description THEN FALSE
    ELSE TRUE

transactions_equal(tx1, tx2, args) ==
    IF tx1.tx_id # tx2.tx_id THEN FALSE
    ELSE IF tx1.tx_type # tx2.tx_type THEN FALSE
    ELSE IF tx1.from_user_id # tx2.from_user_id THEN FALSE
    ELSE IF tx1.to_user_id # tx2.to_user_id THEN FALSE
    ELSE IF tx1.amount # tx2.amount THEN FALSE
    ELSE IF tx1.timestamp # tx2.timestamp THEN FALSE
    ELSE IF ~args.ignore_status /\ tx1.status # tx2.status THEN FALSE
    ELSE IF ~args.ignore_description /\ tx1.description # tx2.description THEN FALSE
    ELSE TRUE

\* compare_transactions: what it reports, and the Result it returns
compare_transactions(txs1, txs2, args) ==
    IF Len(txs1) # Len(txs2)
    THEN [returns |-> "Ok", report |-> "different count", mismatches |-> {}]
    ELSE IF txs1 = <<>>
    THEN [returns |-> "Ok", report |-> "both empty", mismatches |-> {}]
    ELSE
      LET mismatches == {i \in 1..Len(txs1) : ~transactions_equal(txs1[i], txs2[i], args)} IN
      IF mismatches = {}
      THEN [returns |-> "Ok", report |-> "identical", mismatches |-> {}]
      ELSE [returns |-> "Ok", report |-> "mismatches", mismatches |-> mismatches]

\* read_transactions: the codec chosen by the format; a codec error becomes the Err of main
read_transactions(file, format) ==
    IF format = "Csv" THEN CsvParseRecords(file.content)
    ELSE IF format = "Txt" THEN TextParseRecords(file.content)
    ELSE BinaryParseRecords(file.content)

Exit(code, report, t1, t2) ==
    [exit_code |-> code, report |-> report, transactions1 |-> t1, transactions2 |-> t2]

\* main once both files are read: compare_transactions(..)?; Ok(())
MainCompare(args, transactions1, transactions2) ==
    IF transactions2.kind = "Panic" THEN Exit(101, "panic", transactions1, transactions2)
    ELSE IF transactions2.kind = "Err" THEN Exit(1, "error", transactions1, transactions2)
    ELSE
      LET c == compare_transactions(transactions1.records, transactions2.records, args) IN
      IF c.returns = "Ok" THEN Exit(0, c.report, transactions1, transactions2)
      ELSE Exit(1, "error", transactions1, transactions2)

\* main once file1 is read: read_transactions(&args.file2, &args.format2)?
MainReadSecond(args, transactions1, file2) ==
    IF transactions1.kind = "Panic" THEN Exit(101, "panic", transactions1, NoResult)
    ELSE IF transactions1.kind = "Err" THEN Exit(1, "error", transactions1, NoResult)
    ELSE MainCompare(args, transactions1, read_transactions(file2, args.format2))

\* main of the comparer: exit status 1 for a missing file or an Err out of main,
\* 101 for a panic, 0 when main returns Ok(())
main(args, file1, file2) ==
    IF ~file1.exists THEN Exit(1, "file not found", NoResult, NoResult)
    ELSE IF ~file2.exists THEN Exit(1, "file not found", NoResult, NoResult)
    ELSE MainReadSecond(args, read_transactions(file1, args.format1), file2)

\* what a codec writes for a list: the file the comparer is given
WriteAs(format, recs) ==
    IF format = "Csv" THEN CsvWriteRecords(recs)
    ELSE IF format = "Txt" THEN TextWriteRecords(recs)
    ELSE BinaryWriteRecords(recs).out

-----------------------------------------------------------------------------
(* Inputs of the model *)

UserIds == {0, 5}
Amounts == {-7, 0, 7}

\* the comparer is not running in the codec specifications
NoComparer == [pc |-> "idle"]

StatusAt(j) == CASE j % 3 = 1 -> "Success" [] j % 3 = 2 -> "Failure" [] OTHER -> "Pending"

\* a record that is valid in every format, used around the record under test
BaseTx(j) == Transaction(j, "Transfer", 5, 6, 7, 1000 + j, StatusAt(j), <<"b">>)

\* lists of n records whose i-th record is t
ListWith(n, i, t) == [j \in 1..n |-> IF j = i THEN [t EXCEPT !.tx_id = j] ELSE BaseTx(j)]

ListsAround(T) ==
    {<<>>} \cup UNION {{ListWith(n, i, t) : i \in 1..n, t \in T} : n \in 1..MaxRecords}

BinDescChars == {"a", SP, QUOTE}

BinaryTxs ==
    {Transaction(1, ty, f, t, a, 1001, "Pending", d) :
        ty \in TransactionType, f \in UserIds, t \in UserIds, a \in Amounts,
        d \in StringsUpTo(BinDescChars, MaxDescLen)}

BinaryLists == ListsAround(BinaryTxs)

-----------------------------------------------------------------------------
(* Binary round trip: write_records, then parse_records *)

InitBinary ==
    /\ pc = "start"
    /\ records \in BinaryLists
    /\ wire = <<>>
    /\ result = NoResult
    /\ result2 = NoResult
    /\ raw = <<>>
    /\ cmp = NoComparer
    /\ mt = NoMt940

\* BinaryParser::write_records(&records, &mut wire)
BinaryWrite ==
    /\ pc = "start"
    /\ LET w == BinaryWriteRecords(records) IN
         /\ wire' = w.out
         /\ pc' = IF w.kind = "Ok" THEN "written" ELSE "write_failed"
    /\ UNCHANGED <<records, result, result2, raw, cmp, mt>>

\* BinaryParser::parse_records(wire)
BinaryParse ==
    /\ pc \in {"written", "truncated"}
    /\ result' = BinaryParseRecords(wire)
    /\ pc' = "parsed"
    /\ UNCHANGED <<records, wire, result2, raw, cmp, mt>>

NextBinary == BinaryWrite \/ BinaryParse

SpecBinary == InitBinary /\ [][NextBinary]_vars

\* the empty list and the lists of one transfer, one for each description
InitBinaryLive ==
    /\ pc = "start"
    /\ records \in {<<>>} \cup {<<Transaction(1, "Transfer", 5, 6, 7, 1001, "Pending", d)>> :
                                   d \in StringsUpTo(BinDescChars, MaxDescLen)}
    /\ wire = <<>>
    /\ result = NoResult
    /\ result2 = NoResult
    /\ raw = <<>>
    /\ cmp = NoComparer
    /\ mt = NoMt940

\* a call that has started runs on: write_records and parse_records are taken
\* when enabled
LiveBinary == InitBinaryLive /\ [][NextBinary]_vars /\ WF_vars(NextBinary)

-----------------------------------------------------------------------------
(* Binary end of stream: the written stream is cut short before it is read *)

EofTxs == {[BaseTx(1) EXCEPT !.description = d] : d \in StringsUpTo({"a"}, MaxDescLen)}

EofLists == UNION {[1..n -> EofTxs] : n \in 0..MaxRecords}

InitBinaryEof ==
    /\ pc = "start"
    /\ records \in EofLists
    /\ wire = <<>>
    /\ result = NoResult
    /\ result2 = NoResult
    /\ raw = <<>>
    /\ cmp = NoComparer
    /\ mt = NoMt940

\* the file holds only the first k bytes of what was written
TruncateInput ==
    /\ pc = "written"
    /\ \E k \in 0..(Len(wire) - 1) : wire' = SubSeq(wire, 1, k)
    /\ pc' = "truncated"
    /\ UNCHANGED <<records, result, result2, raw, cmp, mt>>

NextBinaryEof == BinaryWrite \/ TruncateInput \/ BinaryParse

SpecBinaryEof == InitBinaryEof /\ [][NextBinaryEof]_vars

\* stream offsets at which a record of the written list ends
RecordBoundaries(recs) ==
    {Len(BinaryWriteRecords(SubSeq(recs, 1, k)).out) : k \in 0..Len(recs)}

-----------------------------------------------------------------------------
(* CSV round trip and conversion to Binary *)

CsvDescChars == {"a", SP, QUOTE, COMMA, NL}

\* the three shapes the CSV and Text business rules allow, amount > 0
ValidTxs(descs) ==
    {Transaction(1, "Deposit", 0, 5, 7, 1001, "Pending", d) : d \in descs}
    \cup {Transaction(1, "Withdrawal", 5, 0, 7, 1001, "Pending", d) : d \in descs}
    \cup {Transaction(1, "Transfer", 5, 6, 7, 1001, "Pending", d) : d \in descs}

CsvLists == ListsAround(ValidTxs(StringsUpTo(CsvDescChars, MaxDescLen)))

InitCsv ==
    /\ pc = "start"
    /\ records \in CsvLists
    /\ wire = <<>>
    /\ result = NoResult
    /\ result2 = NoResult
    /\ raw = <<>>
    /\ cmp = NoComparer
    /\ mt = NoMt940

\* CsvParser::write_records(&records, &mut wire)
CsvWrite ==
    /\ pc = "start"
    /\ wire' = CsvWriteRecords(records)
    /\ pc' = "written"
    /\ UNCHANGED <<records, result, result2, raw, cmp, mt>>

\* CsvParser::parse_records(wire)
CsvParse ==
    /\ pc = "written"
    /\ result' = CsvParseRecords(wire)
    /\ pc' = "parsed"
    /\ UNCHANGED <<records, wire, result2, raw, cmp, mt>>

\* the converter: the list read from CSV is written with BinaryParser::write_records
ConvertToBinary ==
    /\ pc = "parsed"
    /\ result.kind = "Ok"
    /\ LET w == BinaryWriteRecords(result.records) IN
         /\ w.kind = "Ok"
         /\ wire' = w.out
    /\ pc' = "converted"
    /\ UNCHANGED <<records, result, result2, raw, cmp, mt>>

\* BinaryParser::parse_records on the converted file
ReparseBinary ==
    /\ pc = "converted"
    /\ result2' = BinaryParseRecords(wire)
    /\ pc' = "reparsed"
    /\ UNCHANGED <<records, wire, result, raw, cmp, mt>>

NextCsv == CsvWrite \/ CsvParse \/ ConvertToBinary \/ ReparseBinary

SpecCsv == InitCsv /\ [][NextCsv]_vars

-----------------------------------------------------------------------------
(* CSV input written by hand: the expected header and one data row *)

RawNumbers == {<<"0">>, <<"5">>, <<"x">>}
RawAmounts == {<<"7">>, <<"0">>, <<"-", "7">>, <<"x">>}
RawTxTypes == {Str("DEPOSIT"), Str("TRANSFER"), Str("WITHDRAWAL"), <<"x">>}
RawStatuses == {Str("SUCCESS"), <<"x">>}
RawCsvDescChars == {"a", QUOTE, COMMA}

\* short fields, and the quoted field that decodes to a single double quote
RawCsvDescriptions ==
    StringsUpTo(RawCsvDescChars, MaxDescLen) \cup {<<QUOTE, QUOTE, QUOTE, QUOTE>>}

CsvRawRows ==
    {<<id, ty, f, t, a, ts, st, d>> :
        id \in {<<"1">>, <<"x">>}, ty \in RawTxTypes, f \in RawNumbers,
        t \in {<<"0">>, <<"5">>}, a \in RawAmounts, ts \in {<<"9">>, <<"x">>},
        st \in RawStatuses, d \in RawCsvDescriptions}

InitCsvRaw ==
    /\ pc = "written"
    /\ raw \in CsvRawRows
    /\ wire = CsvHeaderLine \o <<NL>> \o Join(raw, <<COMMA>>) \o <<NL>>
    /\ records = <<>>
    /\ result = NoResult
    /\ result2 = NoResult
    /\ cmp = NoComparer
    /\ mt = NoMt940

NextCsvRaw == CsvParse

SpecCsvRaw == InitCsvRaw /\ [][NextCsvRaw]_vars

-----------------------------------------------------------------------------
(* Text round trip *)

TextDescChars == {"a", QUOTE, BSL, HASH, COLON, NL}

TextLists == ListsAround(ValidTxs(StringsUpTo(TextDescChars, MaxDescLen)))

InitText ==
    /\ pc = "start"
    /\ records \in TextLists
    /\ wire = <<>>
    /\ result = NoResult
    /\ result2 = NoResult
    /\ raw = <<>>
    /\ cmp = NoComparer
    /\ mt = NoMt940

\* TextParser::write_records(&records, &mut wire)
TextWrite ==
    /\ pc = "start"
    /\ wire' = TextWriteRecords(records)
    /\ pc' = "written"
    /\ UNCHANGED <<records, result, result2, raw, cmp, mt>>

\* TextParser::parse_records(wire)
TextParse ==
    /\ pc = "written"
    /\ result' = TextParseRecords(wire)
    /\ pc' = "parsed"
    /\ UNCHANGED <<records, wire, result2, raw, cmp, mt>>

NextText == TextWrite \/ TextParse

SpecText == InitText /\ [][NextText]_vars

-----------------------------------------------------------------------------
(* Comparer run on two files; records is the list behind file1, raw the list behind file2 *)

CmpTxs ==
    {BaseTx(1),
     Transaction(9, "Transfer", 5, 6, 7, 1001, StatusAt(1), <<"b">>),
     Transaction(1, "Deposit", 0, 6, 7, 1001, StatusAt(1), <<"b">>),
     Transaction(1, "Transfer", 5, 6, 8, 1001, StatusAt(1), <<"b">>),
     Transaction(1, "Transfer", 5, 6, 7, 1001, "Failure", <<"b">>),
     Transaction(1, "Transfer", 5, 6, 7, 1001, StatusAt(1), <<"a">>)}

CmpLists == ListsAround(CmpTxs)

CmpArgs ==
    {Args(f1, f2, d, st) : f1 \in Format, f2 \in Format, d \in BOOLEAN, st \in BOOLEAN}

InitComparer ==
    /\ pc = "start"
    /\ records \in CmpLists
    /\ raw \in CmpLists
    /\ wire = <<>>
    /\ result = NoResult
    /\ result2 = NoResult
    /\ mt = NoMt940
    /\ cmp \in {[pc |-> "idle", args |-> a, file1 |-> NoFile, file2 |-> NoFile,
                 report |-> "", exit_code |-> -1] : a \in CmpArgs}

\* the two input files are produced by the codecs named on the command line
PrepareFiles ==
    /\ pc = "start"
    /\ cmp' = [cmp EXCEPT !.file1 = File(WriteAs(cmp.args.format1, records)),
                          !.file2 = File(WriteAs(cmp.args.format2, raw))]
    /\ pc' = "files"
    /\ UNCHANGED <<records, wire, result, result2, raw, mt>>

\* one of the two paths does not exist when the comparer starts
RemoveFile ==
    /\ pc = "files"
    /\ \E f \in {1, 2} :
         cmp' = IF f = 1 THEN [cmp EXCEPT !.file1 = NoFile] ELSE [cmp EXCEPT !.file2 = NoFile]
    /\ pc' = "file_missing"
    /\ UNCHANGED <<records, wire, result, result2, raw, mt>>

\* one run of the comparer process, from main to its exit status
ComparerMain ==
    /\ pc \in {"start", "files", "file_missing"}
    /\ \E e \in {main(cmp.args, cmp.file1, cmp.file2)} :
         /\ result' = e.transactions1
         /\ result2' = e.transactions2
         /\ cmp' = [cmp EXCEPT !.pc = "exited", !.report = e.report, !.exit_code = e.exit_code]
    /\ pc' = "exited"
    /\ UNCHANGED <<records, wire, raw, mt>>

NextComparer == PrepareFiles \/ RemoveFile \/ ComparerMain

SpecComparer == InitComparer /\ [][NextComparer]_vars

-----------------------------------------------------------------------------
(* Text input written by hand; raw is the sequence of its lines *)

RawLine(key, value) == Str(key) \o <<COLON, SP>> \o value

RawTextRecord(ty, f, t, a) ==
    <<RawLine("TX_ID", <<"1">>), RawLine("TX_TYPE", ty), RawLine("FROM_USER_ID", f),
      RawLine("TO_USER_ID", t), RawLine("AMOUNT", a), RawLine("TIMESTAMP", <<"9">>),
      RawLine("STATUS", Str("SUCCESS")), RawLine("DESCRIPTION", <<QUOTE, "a", QUOTE>>)>>

RawTextTypes == {Str("DEPOSIT"), Str("Transfer"), Str("WITHDRAWAL"), <<"x">>}
RawTextAmounts == {<<"7">>, <<"0">>, <<"-", "7">>, <<"7", SP, HASH, SP, "a">>, <<"x">>}

\* one block of eight lines, every combination of the fields the rules look at
RawTextRecords ==
    {RawTextRecord(ty, f, t, a) :
        ty \in RawTextTypes, f \in RawNumbers, t \in RawNumbers, a \in RawTextAmounts}

ValidTextRecord == RawTextRecord(Str("DEPOSIT"), <<"0">>, <<"5">>, <<"7">>)

\* a blank line, a comment, a line without ':', a second TX_ID line, a line with an empty key
ExtraLines ==
    {<<>>, <<HASH, SP, "a">>, <<"a">>, RawLine("TX_ID", <<"2">>), <<COLON, SP, "a">>}

InsertAt(lines, p, l) == SubSeq(lines, 1, p) \o <<l>> \o SubSeq(lines, p + 1, Len(lines))

\* the valid record with up to two extra lines put anywhere in it
WithExtras ==
    {ValidTextRecord}
    \cup {InsertAt(ValidTextRecord, p, l) : p \in 0..Len(ValidTextRecord), l \in ExtraLines}
    \cup {InsertAt(InsertAt(ValidTextRecord, p, l), q, m) :
            p \in 0..Len(ValidTextRecord), l \in ExtraLines,
            q \in 0..Len(ValidTextRecord) + 1, m \in ExtraLines}

\* a lone block of eight lines; the valid record with extra lines; the same after
\* a first record that is valid
RawTexts ==
    RawTextRecords
    \cup WithExtras
    \cup {ValidTextRecord \o <<<<>>>> \o x : x \in WithExtras}

InitTextRaw ==
    /\ pc = "written"
    /\ raw \in RawTexts
    /\ wire = Concat([i \in 1..Len(raw) |-> raw[i] \o <<NL>>])
    /\ records = <<>>
    /\ result = NoResult
    /\ result2 = NoResult
    /\ cmp = NoComparer
    /\ mt = NoMt940

NextTextRaw == TextParse

SpecTextRaw == InitTextRaw /\ [][NextTextRaw]_vars

-----------------------------------------------------------------------------
(* Text input made of whole records, blank lines and comments; raw is the
   sequence of its lines *)

MaxItems == 4

\* the valid record with the TX_ID of its place in the input
SegRecord(p) ==
    [ValidTextRecord EXCEPT ![1] = RawLine("TX_ID", <<(<<"1", "2", "3", "4", "5", "6", "7", "8", "9">>)[p]>>)]

\* a record, a record with a comment in its middle, a blank line, a line of
\* spaces, a comment line
SegKinds == {"record", "commented", "blank", "spaces", "comment"}

SegItem(kind, p) ==
    CASE kind = "record"    -> SegRecord(p)
      [] kind = "commented" -> InsertAt(SegRecord(p), 4, <<SP, HASH, SP, "a">>)
      [] kind = "blank"     -> <<<<>>>>
      [] kind = "spaces"    -> <<<<SP, SP>>>>
      [] kind = "comment"   -> <<<<HASH, SP, "a">>>>

SegInputs ==
    UNION {{Concat([p \in 1..k |-> SegItem(kinds[p], p)]) : kinds \in [1..k -> SegKinds]} :
            k \in 1..MaxItems}

InitTextSeg ==
    /\ pc = "written"
    /\ raw \in SegInputs
    /\ wire = Concat([i \in 1..Len(raw) |-> raw[i] \o <<NL>>])
    /\ records = <<>>
    /\ result = NoResult
    /\ result2 = NoResult
    /\ cmp = NoComparer
    /\ mt = NoMt940

SpecTextSeg == InitTextSeg /\ [][NextTextRaw]_vars

-----------------------------------------------------------------------------
(* Binary write of a record whose description is raw bytes long; raw is the usize *)
(* length as eight big-endian bytes, wire the header written and the length of    *)
(* the description bytes that follow it                                           *)

DescLengths ==
    {<<0, 0, 0, b4, b3, b2, b1, b0>> :
        b4 \in {0, 1}, b3 \in {0, 1, 255}, b2 \in {0, 15, 16, 17}, b1 \in {0, 1}, b0 \in {0, 1, 100}}

NoBytes == <<0, 0, 0, 0, 0, 0, 0, 0>>

InitBinaryCap ==
    /\ pc = "start"
    /\ raw \in DescLengths
    /\ records = <<>>
    /\ wire = <<>>
    /\ result = NoResult
    /\ result2 = NoResult
    /\ cmp = NoComparer
    /\ mt = NoMt940

\* BinaryRecord::write_to on a record with a description of raw bytes
WriteLongDescription ==
    /\ pc = "start"
    /\ \E w \in {write_to_header(BaseTx(1), raw)} :
         /\ wire' = [header |-> w.out,
                     payload_len |-> IF w.kind = "Ok" /\ AsU32(raw) # <<0, 0, 0, 0>>
                                     THEN raw ELSE NoBytes]
         /\ result' = IF w.kind = "Ok" THEN Ok(<<>>) ELSE Err(w.error, w.msg)
    /\ pc' = "header_written"
    /\ UNCHANGED <<records, result2, raw, cmp, mt>>

NextBinaryCap == WriteLongDescription

SpecBinaryCap == InitBinaryCap /\ [][NextBinaryCap]_vars

-----------------------------------------------------------------------------
(* Binary write of a list of records whose descriptions are given by their
   lengths; raw holds the lengths, wire what each call of write_to wrote *)

\* 0, 1, 1 MiB, 1 MiB + 1, 2^32 and 2^32 + 1 MiB + 1 bytes
ListedLengths ==
    {<<0, 0, 0, 0, 0, 0, 0, 0>>, <<0, 0, 0, 0, 0, 0, 0, 1>>, <<0, 0, 0, 0, 0, 16, 0, 0>>,
     <<0, 0, 0, 0, 0, 16, 0, 1>>, <<0, 0, 0, 1, 0, 0, 0, 0>>, <<0, 0, 0, 1, 0, 16, 0, 1>>}

InitBinaryLengths ==
    /\ pc = "start"
    /\ raw \in UNION {[1..k -> ListedLengths] : k \in 1..(MaxRecords + 1)}
    /\ records = <<>>
    /\ wire = <<>>
    /\ result = NoResult
    /\ result2 = NoResult
    /\ cmp = NoComparer
    /\ mt = NoMt940

\* the loop of BinaryParser::write_records over records i.. of the list, after out
RECURSIVE WriteLengthsLoop(_, _, _)
WriteLengthsLoop(lens, i, out) ==
    IF i > Len(lens) THEN [result |-> Ok(<<>>), out |-> out]
    ELSE LET w == write_to_header(BaseTx(i), lens[i]) IN
         IF w.kind = "Ok"
         THEN WriteLengthsLoop(lens, i + 1,
                  Append(out, [header |-> w.out,
                               payload_len |-> IF AsU32(lens[i]) # <<0, 0, 0, 0>>
                                               THEN lens[i] ELSE NoBytes]))
         ELSE [result |-> Err(w.error, w.msg),
               out |-> Append(out, [header |-> w.out, payload_len |-> NoBytes])]

\* BinaryParser::write_records(&records, &mut wire)
WriteListedLengths ==
    /\ pc = "start"
    /\ \E w \in {WriteLengthsLoop(raw, 1, <<>>)} :
         /\ wire' = w.out
         /\ result' = w.result
    /\ pc' = "written"
    /\ UNCHANGED <<records, result2, raw, cmp, mt>>

SpecBinaryLengths == InitBinaryLengths /\ [][WriteListedLengths]_vars

-----------------------------------------------------------------------------
(* Binary read of one hand-made record header with no description bytes after it *)

HeaderU32s ==
    {<<b3, b2, b1, b0>> :
        b3 \in {0, 255}, b2 \in {0, 16, 17, 255}, b1 \in {0, 255}, b0 \in {0, 1, 46, 47}}

RawHeaders ==
    [magic : {MAGIC, <<89, 80, 66, 0>>}, record_size : HeaderU32s, tx_type : {0, 3},
     status : {0}, desc_len : HeaderU32s]

HeaderBytes(h) ==
    h.magic \o h.record_size \o BE(1, 8) \o <<h.tx_type>> \o BE(0, 8) \o BE(5, 8)
    \o I64Bytes(7) \o BE(9, 8) \o <<h.status>> \o h.desc_len

InitBinaryHeader ==
    /\ pc = "written"
    /\ raw \in RawHeaders
    /\ wire = HeaderBytes(raw)
    /\ records = <<>>
    /\ result = NoResult
    /\ result2 = NoResult
    /\ cmp = NoComparer
    /\ mt = NoMt940

NextBinaryHeader == BinaryParse

SpecBinaryHeader == InitBinaryHeader /\ [][NextBinaryHeader]_vars

-----------------------------------------------------------------------------
(* CSV input whose first line is hand-written; raw holds its columns and line ending *)

\* a column as expected, in quotes, with another name, or (first column) with a trailing space
HeaderColumnForms(i) ==
    {CsvHeaderNames[i], <<QUOTE>> \o CsvHeaderNames[i] \o <<QUOTE>>, <<"x">>}
    \cup (IF i = 1 THEN {CsvHeaderNames[i] \o <<SP>>} ELSE {})

RawHeaderLines ==
    {<<c1, c2, c3, c4, c5, c6, c7, c8>> :
        c1 \in HeaderColumnForms(1), c2 \in HeaderColumnForms(2), c3 \in HeaderColumnForms(3),
        c4 \in HeaderColumnForms(4), c5 \in HeaderColumnForms(5), c6 \in HeaderColumnForms(6),
        c7 \in HeaderColumnForms(7), c8 \in HeaderColumnForms(8)}
    \cup {SubSeq(CsvHeaderNames, 1, 7), Append(CsvHeaderNames, <<"x">>), <<<<>>>>}

ValidCsvRow == CsvRow(Transaction(1, "Deposit", 0, 5, 7, 9, "Success", <<"a">>))

InitCsvHeader ==
    /\ pc = "written"
    /\ raw \in [columns : RawHeaderLines, eol : {<<NL>>, <<CR, NL>>}]
    /\ wire = Join(raw.columns, <<COMMA>>) \o raw.eol \o ValidCsvRow \o raw.eol
    /\ records = <<>>
    /\ result = NoResult
    /\ result2 = NoResult
    /\ cmp = NoComparer
    /\ mt = NoMt940

NextCsvHeader == CsvParse

SpecCsvHeader == InitCsvHeader /\ [][NextCsvHeader]_vars

-----------------------------------------------------------------------------
(* MT940 codec (mt940_format.rs) *)

\* the printable ASCII characters from 32 (space) to 95 (_) and from 97 (a) to 126 (~)
AsciiLow ==
    <<" ", "!", "\"", "#", "$", "%", "&", "'", "(", ")", "*", "+", ",", "-", ".", "/",
      "0", "1", "2", "3", "4", "5", "6", "7", "8", "9", ":", ";", "<", "=", ">", "?",
      "@", "A", "B", "C", "D", "E", "F", "G", "H", "I", "J", "K", "L", "M", "N", "O",
      "P", "Q", "R", "S", "T", "U", "V", "W", "X", "Y", "Z", "[", "\\", "]", "^", "_">>

AsciiHigh ==
    <<"a", "b", "c", "d", "e", "f", "g", "h", "i", "j", "k", "l", "m", "n", "o",
      "p", "q", "r", "s", "t", "u", "v", "w", "x", "y", "z", "{", "|", "}", "~">>

\* the code of every character of the two tables
AsciiCodes ==
    [c \in {AsciiLow[i] : i \in 1..Len(AsciiLow)} \cup {AsciiHigh[i] : i \in 1..Len(AsciiHigh)} |->
        IF \E i \in 1..Len(AsciiLow) : AsciiLow[i] = c
        THEN 31 + (CHOOSE i \in 1..Len(AsciiLow) : AsciiLow[i] = c)
        ELSE 96 + (CHOOSE i \in 1..Len(AsciiHigh) : AsciiHigh[i] = c)]

\* str::bytes of an ASCII character
AsciiCode(c) == AsciiCodes[c]

\* a u64 as four 16-bit limbs, least significant first
U64Zero == <<0, 0, 0, 0>>

\* acc.wrapping_mul(31).wrapping_add(b): the carry out of the top limb is dropped
WrappingMulAdd(acc, b) ==
    LET t0 == acc[1] * 31 + b
        t1 == acc[2] * 31 + t0 \div 65536
        t2 == acc[3] * 31 + t1 \div 65536
        t3 == acc[4] * 31 + t2 \div 65536
    IN <<t0 % 65536, t1 % 65536, t2 % 65536, t3 % 65536>>

\* bytes().fold(acc, ...) over the characters lo..hi of s
RECURSIVE FoldBytes(_, _, _, _)
FoldBytes(acc, s, lo, hi) ==
    IF lo > hi THEN acc
    ELSE IF lo = hi THEN WrappingMulAdd(acc, AsciiCode(s[lo]))
    ELSE CHOOSE h \in {FoldBytes(left, s, (lo + hi) \div 2 + 1, hi) :
                        left \in {FoldBytes(acc, s, lo, (lo + hi) \div 2)}} : TRUE

IdModulus == 1000000000

\* (r * 2^k) % 1000000000 by doubling, every intermediate value below 2^31
RECURSIVE ShiftMod(_, _)
ShiftMod(r, k) ==
    IF k = 0 THEN r
    ELSE CHOOSE x \in {ShiftMod(d, k - 1) : d \in {(2 * r) % IdModulus}} : TRUE

\* hash % 1000000000 of a u64 given by its limbs
U64Mod(h) ==
    LET r3 == h[4]
        r2 == (ShiftMod(r3, 16) + h[3]) % IdModulus
        r1 == (ShiftMod(r2, 16) + h[2]) % IdModulus
    IN (ShiftMod(r1, 16) + h[1]) % IdModulus

\* the fold cut to its low 31 bits instead of reduced modulo 1000000000
HashId_Truncated(s) ==
    CHOOSE id \in {(FoldBytes(U64Zero, t, 1, Len(t))[2] % 32768) * 65536
                    + FoldBytes(U64Zero, t, 1, Len(t))[1] : t \in {s}} : TRUE

\* the weak hash of generate_tx_id
HashId(s) == CHOOSE id \in {U64Mod(FoldBytes(U64Zero, t, 1, Len(t))) : t \in {s}} : TRUE

\* a string literal of mt940_format.rs, as a sequence of its characters
Lit(lit) ==
    CASE lit = "Reference" -> <<"R","e","f","e","r","e","n","c","e">>
      [] lit = "Date" -> <<"D","a","t","e">>
      [] lit = "DC" -> <<"D","C">>
      [] lit = "AmountRaw" -> <<"A","m","o","u","n","t","R","a","w">>
      [] lit = "TransactionCode" -> <<"T","r","a","n","s","a","c","t","i","o","n","C","o","d","e">>
      [] lit = "CustomerReference" -> <<"C","u","s","t","o","m","e","r","R","e","f","e","r","e","n","c","e">>
      [] lit = "EREF" -> <<"E","R","E","F">>
      [] lit = "CounterpartyName" -> <<"C","o","u","n","t","e","r","p","a","r","t","y","N","a","m","e">>
      [] lit = "AccountNumber" -> <<"A","c","c","o","u","n","t","N","u","m","b","e","r">>
      [] lit = "BIC" -> <<"B","I","C">>
      [] lit = "Description" -> <<"D","e","s","c","r","i","p","t","i","o","n">>
      [] lit = "Purpose" -> <<"P","u","r","p","o","s","e">>
      [] lit = "OriginalAmount" -> <<"O","r","i","g","i","n","a","l","A","m","o","u","n","t">>
      [] lit = "DebtorId" -> <<"D","e","b","t","o","r","I","d">>
      [] lit = "Unparsed" -> <<"U","n","p","a","r","s","e","d">>
      [] lit = "Other_" -> <<"O","t","h","e","r","_">>
      [] lit = "CRNM" -> <<"C","R","N","M">>
      [] lit = "CNRM" -> <<"C","N","R","M">>
      [] lit = "CACT" -> <<"C","A","C","T">>
      [] lit = "DACT" -> <<"D","A","C","T">>
      [] lit = "CBIC" -> <<"C","B","I","C">>
      [] lit = "DBIC" -> <<"D","B","I","C">>
      [] lit = "REMI" -> <<"R","E","M","I">>
      [] lit = "OPRP" -> <<"O","P","R","P">>
      [] lit = "OAMT" -> <<"O","A","M","T">>
      [] lit = "DCID" -> <<"D","C","I","D">>
      [] lit = "CITI" -> <<"C","I","T","I">>
      [] lit = "DB" -> <<"D","B">>
      [] lit = "D" -> <<"D">>
      [] lit = "C" -> <<"C">>
      [] lit = "20" -> <<"2","0">>
      [] lit = "61" -> <<"6","1">>
      [] lit = "86" -> <<"8","6">>
      [] lit = "//" -> <<"/","/">>
      [] lit = "Purpose: " -> <<"P","u","r","p","o","s","e",":"," ">>
      [] lit = "Counterparty: " -> <<"C","o","u","n","t","e","r","p","a","r","t","y",":"," ">>
      [] lit = "Ref: " -> <<"R","e","f",":"," ">>
      [] lit = "Code: " -> <<"C","o","d","e",":"," ">>
      [] lit = " | " -> <<" ","|"," ">>
      [] lit = "MT940 Transaction" -> <<"M","T","9","4","0"," ","T","r","a","n","s","a","c","t","i","o","n">>

\* HashMap<String, String>: a function from keys to values
EmptyMap == <<>>

\* HashMap::insert
Insert(m, k, v) == [x \in DOMAIN m \cup {k} |-> IF x = k THEN v ELSE m[x]]

\* HashMap::extend: the entries of n replace those of m
Extend(m, n) == [x \in DOMAIN m \cup DOMAIN n |-> IF x \in DOMAIN n THEN n[x] ELSE m[x]]

\* insert when the condition holds
InsertIf(cond, m, k, v) == IF cond THEN Insert(m, k, v) ELSE m

\* str::find of a pattern: the 1-based index of the first match, 0 when there is none
Find(s, pat) ==
    LET hits == {i \in 1..(Len(s) - Len(pat) + 1) : SubSeq(s, i, i + Len(pat) - 1) = pat}
    IN IF hits = {} THEN 0 ELSE CHOOSE i \in hits : \A j \in hits : i <= j

\* tag_re ^:(\d{2}[A-Z]?): and field_re :(\d{2}[A-Z]?):(.+) on a trimmed line:
\* the tag and the value, or no match
NoField == [matched |-> FALSE, tag |-> <<>>, value |-> <<>>]

Captures(line) ==
    IF Len(line) >= 5 /\ line[1] = COLON /\ line[2] \in DigitSet /\ line[3] \in DigitSet
       /\ line[4] = COLON
    THEN [matched |-> TRUE, tag |-> SubSeq(line, 2, 3), value |-> SubSeq(line, 5, Len(line))]
    ELSE IF Len(line) >= 6 /\ line[1] = COLON /\ line[2] \in DigitSet /\ line[3] \in DigitSet
            /\ (\E k \in 1..26 : UpperCase[k] = line[4]) /\ line[5] = COLON
    THEN [matched |-> TRUE, tag |-> SubSeq(line, 2, 4), value |-> SubSeq(line, 6, Len(line))]
    ELSE NoField

\* Result<HashMap<String, String>, ParserError> of the field parsers
FieldsOk(fields) == [ok |-> TRUE, fields |-> fields, msg |-> ""]
FieldsErr(m)     == [ok |-> FALSE, fields |-> EmptyMap, msg |-> m]

\* the part of parse_61_field after the D/C marker at (1-based) position pos
AfterMarker(value, fields, pos) ==
    LET stops      == {j \in (pos + 1)..Len(value) : value[j] \notin DigitSet \cup {COMMA, "."}}
        amount_end == IF stops = {} THEN Len(value) + 1
                      ELSE CHOOSE j \in stops : \A k \in stops : j <= k
        amount_str == SubSeq(value, pos + 1, amount_end - 1)
        rest       == SubSeq(value, amount_end, Len(value))
        slash      == Find(rest, Lit("//"))
        code_str   == IF slash = 0 THEN rest ELSE SubSeq(rest, 1, slash - 1)
        ref_str    == IF slash = 0 THEN <<>> ELSE SubSeq(rest, slash + 2, Len(rest))
        f1 == Insert(fields, Lit("DC"), <<value[pos]>>)
        f2 == InsertIf(amount_str # <<>>, f1, Lit("AmountRaw"), amount_str)
        f3 == InsertIf(Trim(code_str) # <<>>, f2, Lit("TransactionCode"), Trim(code_str))
    IN InsertIf(Trim(ref_str) # <<>>, f3, Lit("CustomerReference"), Trim(ref_str))

\* MT940Parser::parse_61_field
parse_61_field(raw_value) ==
    LET value   == Trim(raw_value)
        dated   == InsertIf(Len(value) >= 6 /\ AllDigits(SubSeq(value, 1, 6)),
                            EmptyMap, Lit("Date"), SubSeq(value, 1, 6))
        markers == {i \in 7..Len(value) : value[i] \in {"D", "C"}}
    IN IF Len(value) < 10 THEN FieldsErr("Invalid :61: field format, too short")
       ELSE IF markers = {} THEN FieldsErr("No D/C marker found in :61: field")
       ELSE FieldsOk(AfterMarker(value, dated, CHOOSE i \in markers : \A j \in markers : i <= j))

\* str::split on one character
RECURSIVE Split(_, _)
Split(s, c) ==
    LET i == Find(s, <<c>>) IN
    IF i = 0 THEN <<s>>
    ELSE <<SubSeq(s, 1, i - 1)>> \o Split(SubSeq(s, i + 1, Len(s)), c)

\* the accumulator key of a :86: field name
FieldKey(name) ==
    CASE name = Lit("EREF") -> Lit("EREF")
      [] name \in {Lit("CRNM"), Lit("CNRM")} -> Lit("CounterpartyName")
      [] name \in {Lit("CACT"), Lit("DACT")} -> Lit("AccountNumber")
      [] name \in {Lit("CBIC"), Lit("DBIC")} -> Lit("BIC")
      [] name = Lit("REMI") -> Lit("Description")
      [] name = Lit("OPRP") -> Lit("Purpose")
      [] name = Lit("OAMT") -> Lit("OriginalAmount")
      [] name = Lit("DCID") -> Lit("DebtorId")
      [] OTHER -> Lit("Other_") \o name

\* the loop of parse_86_field over the non-empty pieces, two at a time
RECURSIVE InsertPairs(_, _)
InsertPairs(fields, pieces) ==
    IF pieces = <<>> THEN fields
    ELSE IF Len(pieces) = 1 THEN Insert(fields, Lit("Unparsed"), pieces[1])
    ELSE InsertPairs(Insert(fields, FieldKey(pieces[1]), pieces[2]),
                     SubSeq(pieces, 3, Len(pieces)))

\* MT940Parser::parse_86_field
parse_86_field(value) ==
    LET NonEmpty(piece) == piece # <<>> IN
    FieldsOk(InsertPairs(EmptyMap, SelectSeq(Split(value, "/"), NonEmpty)))

HasField(fields, lit) == Lit(lit) \in DOMAIN fields
Field(fields, lit) == fields[Lit(lit)]

\* <str as Debug>::fmt: quotes around the text, with \ " and tab escaped by a
\* backslash; the character at every position of the output is computed directly
DebugStr(s) ==
    LET Special(i) == s[i] \in {BSL, QUOTE, "\t"}
        Start(i)   == i + Cardinality({k \in 1..(i - 1) : Special(k)})
        Source(j)  == CHOOSE i \in 1..Len(s) :
                          Start(i) <= j /\ j <= Start(i) + (IF Special(i) THEN 1 ELSE 0)
        CharAt(j)  == IF ~Special(Source(j)) THEN s[Source(j)]
                      ELSE IF j = Start(Source(j)) THEN BSL
                      ELSE IF s[Source(j)] = "\t" THEN "t" ELSE s[Source(j)]
    IN IF \A k \in 1..Len(s) : ~Special(k) THEN <<QUOTE>> \o s \o <<QUOTE>>
       ELSE <<QUOTE>>
            \o [j \in 1..(Len(s) + Cardinality({k \in 1..Len(s) : Special(k)})) |-> CharAt(j)]
            \o <<QUOTE>>

\* format!("{:?}", fields): the entries in the order the map iterates them
DebugMap(fields, order) ==
    LET Entry(k) == DebugStr(k) \o <<COLON, SP>> \o DebugStr(fields[k]) IN
    <<"{">> \o Join([i \in 1..Len(order) |-> Entry(order[i])], <<COMMA, SP>>) \o <<"}">>

\* every sequence that lists the elements of S once
RECURSIVE Permutations_(_)
Permutations_(S) ==
    IF S = {} THEN {<<>>}
    ELSE UNION {{<<x>> \o p : p \in Permutations_(S \ {x})} : x \in S}

\* The orders in which a HashMap with these keys can iterate.  The order follows
\* from the RandomState of the map, seeded anew for every map, so that two maps
\* with equal entries need not iterate alike.  Only the Debug output of
\* generate_tx_id observes it.
IterationOrders(fields) ==
    IF HasField(fields, "EREF") \/ HasField(fields, "CustomerReference") THEN {<<>>}
    ELSE Permutations_(DOMAIN fields)

\* MT940Parser::generate_tx_id
generate_tx_id(fields, order) ==
    IF HasField(fields, "EREF") THEN HashId(Field(fields, "EREF"))
    ELSE IF HasField(fields, "CustomerReference") THEN HashId(Field(fields, "CustomerReference"))
    ELSE HashId(DebugMap(fields, order))

\* the "D" arm of determine_transfer_type
DebitType(fields) ==
    IF HasField(fields, "BIC")
    THEN IF Find(Field(fields, "BIC"), Lit("CITI")) # 0
            \/ (Len(Field(fields, "BIC")) >= 2 /\ SubSeq(Field(fields, "BIC"), 1, 2) = Lit("DB"))
         THEN <<"Transfer", 1000, 2000>>
         ELSE <<"Withdrawal", 1000, 0>>
    ELSE <<"Transfer", 1000, 2000>>

\* MT940Parser::determine_transfer_type: (tx_type, from_user_id, to_user_id)
determine_transfer_type(fields) ==
    IF HasField(fields, "DC")
    THEN IF Field(fields, "DC") = Lit("D") THEN DebitType(fields)
         ELSE IF Field(fields, "DC") = Lit("C") THEN <<"Deposit", 0, 1000>>
         ELSE <<"Transfer", 1000, 2000>>
    ELSE <<"Transfer", 1000, 2000>>

\* str::replace of one character by another
ReplaceChar(s, from, to) == [i \in 1..Len(s) |-> IF s[i] = from THEN to ELSE s[i]]

\* Result<_, ParserError> of the value parsers
ValueOk(v)  == [ok |-> TRUE, value |-> v, msg |-> ""]
ValueErr(m) == [ok |-> FALSE, value |-> 0, msg |-> m]

\* the digit at (1-based) position i of ds, 0 beyond its end
DigitAt(ds, i) == IF i <= Len(ds) THEN DigitValue(ds[i]) ELSE 0

\* (cleaned.parse::<f64>()? * 100.0).round() as i64 for a decimal literal: an
\* optional sign, digits, at most one '.', at least one digit.  Rounding is half
\* away from zero on the third decimal.  Exponents, "inf" and "nan" are outside the
\* inputs of the model, and so are literals whose digits from the third decimal on
\* are exactly 5 (there the binary rounding of the product decides), and amounts
\* beyond 2^31.
ScaledAmount(cleaned) ==
    LET signed   == cleaned # <<>> /\ Head(cleaned) \in {"+", "-"}
        body     == IF signed THEN Tail(cleaned) ELSE cleaned
        dot      == Find(body, <<".">>)
        int_part == IF dot = 0 THEN body ELSE SubSeq(body, 1, dot - 1)
        frac     == IF dot = 0 THEN <<>> ELSE SubSeq(body, dot + 1, Len(body))
        digits   == int_part \o frac
        cents    == DigitsValue(int_part) * 100 + DigitAt(frac, 1) * 10 + DigitAt(frac, 2)
                    + (IF DigitAt(frac, 3) >= 5 THEN 1 ELSE 0)
    IN IF digits = <<>> \/ ~AllDigits(digits)
       THEN ValueErr("Invalid amount format")
       ELSE ValueOk(IF signed /\ Head(cleaned) = "-" THEN -cents ELSE cents)

\* parse_amount with the sign of a debit left as parsed
parse_amount_Unsigned(fields) ==
    IF ~HasField(fields, "AmountRaw") /\ ~HasField(fields, "OriginalAmount")
    THEN ValueErr("No amount field found")
    ELSE ScaledAmount(ReplaceChar(IF HasField(fields, "AmountRaw")
                                  THEN Field(fields, "AmountRaw")
                                  ELSE Field(fields, "OriginalAmount"), COMMA, "."))

\* MT940Parser::parse_amount
parse_amount(fields) ==
    IF ~HasField(fields, "AmountRaw") /\ ~HasField(fields, "OriginalAmount")
    THEN ValueErr("No amount field found")
    ELSE LET amount == ScaledAmount(ReplaceChar(IF HasField(fields, "AmountRaw")
                                                THEN Field(fields, "AmountRaw")
                                                ELSE Field(fields, "OriginalAmount"),
                                                COMMA, "."))
         IN IF ~amount.ok THEN amount
            ELSE IF HasField(fields, "DC") /\ Field(fields, "DC") = Lit("D")
                 THEN ValueOk(-amount.value)
                 ELSE amount

\* chrono: leap years and the length of a month
IsLeapYear(y) == (y % 4 = 0 /\ y % 100 # 0) \/ y % 400 = 0

DaysInMonth(y, m) ==
    IF m = 2 THEN (IF IsLeapYear(y) THEN 29 ELSE 28)
    ELSE IF m \in {4, 6, 9, 11} THEN 30 ELSE 31

\* leap years before year y
LeapsBefore(y) == (y - 1) \div 4 - (y - 1) \div 100 + (y - 1) \div 400

RECURSIVE DaysBeforeMonth(_, _)
DaysBeforeMonth(y, m) == IF m = 1 THEN 0 ELSE DaysBeforeMonth(y, m - 1) + DaysInMonth(y, m - 1)

\* days from 1970-01-01 to the given date (negative before 1970)
DaysFromEpoch(y, m, d) ==
    365 * (y - 1970) + LeapsBefore(y) - LeapsBefore(1970) + DaysBeforeMonth(y, m) + d - 1

\* A timestamp in milliseconds is days * 86,400,000 + millis.  For a date before
\* 1970 `timestamp_millis() as u64` wraps the negative count modulo 2^64.
Timestamp(days, millis) == [days |-> days, millis |-> millis]

NoonMillis == 12 * 60 * 60 * 1000

\* MT940Parser::parse_timestamp; now is what Utc::now() returns
parse_timestamp(fields, now) ==
    IF HasField(fields, "Date") /\ Len(Field(fields, "Date")) = 6
    THEN LET date_str   == Field(fields, "Date")
             day        == DigitsValue(SubSeq(date_str, 1, 2))
             month      == DigitsValue(SubSeq(date_str, 3, 4))
             year_short == DigitsValue(SubSeq(date_str, 5, 6))
             year       == IF year_short >= 50 THEN 1900 + year_short ELSE 2000 + year_short
         IN IF ~AllDigits(SubSeq(date_str, 1, 2)) THEN ValueErr("Invalid day in date")
            ELSE IF ~AllDigits(SubSeq(date_str, 3, 4)) THEN ValueErr("Invalid month in date")
            ELSE IF ~AllDigits(SubSeq(date_str, 5, 6)) THEN ValueErr("Invalid year in date")
            ELSE IF month \in 1..12 /\ day \in 1..DaysInMonth(year, month)
                 THEN ValueOk(Timestamp(DaysFromEpoch(year, month, day), NoonMillis))
                 ELSE ValueErr("Invalid date")
    ELSE ValueOk(now)

\* MT940Parser::build_description
build_description(fields) ==
    LET Part(lit, prefix) == IF HasField(fields, lit) THEN <<prefix \o Field(fields, lit)>> ELSE <<>>
        code  == IF HasField(fields, "TransactionCode") /\ Field(fields, "TransactionCode") # <<>>
                 THEN <<Lit("Code: ") \o Field(fields, "TransactionCode")>> ELSE <<>>
        parts == Part("Description", <<>>) \o Part("Purpose", Lit("Purpose: "))
                 \o Part("CounterpartyName", Lit("Counterparty: ")) \o Part("EREF", Lit("Ref: "))
                 \o code
    IN IF parts = <<>> THEN Lit("MT940 Transaction") ELSE Join(parts, Lit(" | "))

\* Result<Transaction, ParserError> of parse_transaction
TxOk(tx)  == [ok |-> TRUE, tx |-> <<tx>>, msg |-> ""]
TxErr(m)  == [ok |-> FALSE, tx |-> <<>>, msg |-> m]

\* MT940Parser::parse_transaction; order is how the field map iterates
parse_transaction(fields, order, now) ==
    IF ~HasField(fields, "AmountRaw") /\ ~HasField(fields, "OriginalAmount")
    THEN TxErr("Transaction must have amount field")
    ELSE IF ~parse_amount(fields).ok THEN TxErr(parse_amount(fields).msg)
    ELSE IF ~parse_timestamp(fields, now).ok THEN TxErr(parse_timestamp(fields, now).msg)
    ELSE TxOk(Transaction(generate_tx_id(fields, order),
                          determine_transfer_type(fields)[1],
                          determine_transfer_type(fields)[2],
                          determine_transfer_type(fields)[3],
                          parse_amount(fields).value,
                          parse_timestamp(fields, now).value,
                          "Success",
                          build_description(fields)))

\* `if let Ok(transaction) = parse_transaction(..) { transactions.push(transaction) }`
Flush(m, order, now) ==
    m.transactions \o parse_transaction(m.current_record, order, now).tx

\* the "61" arm that starts the new record without flushing the pending one
Arm61_NoFlush(m, value, order, now) ==
    LET pending == m.has_61_field /\ DOMAIN m.current_record # {}
        kept    == IF pending THEN Insert(EmptyMap, Lit("Reference"), <<>>) ELSE m.current_record
    IN [m EXCEPT !.has_61_field   = TRUE,
                 !.current_record = IF parse_61_field(value).ok
                                    THEN Extend(kept, parse_61_field(value).fields)
                                    ELSE kept]

\* the "61" arm (lines 51-65) for a loop state whose line counter is already advanced
Arm61(m, value, order, now) ==
    LET pending == m.has_61_field /\ DOMAIN m.current_record # {}
        kept    == IF pending THEN Insert(EmptyMap, Lit("Reference"), <<>>) ELSE m.current_record
    IN [m EXCEPT !.transactions   = IF pending THEN Flush(m, order, now) ELSE @,
                 !.has_61_field   = TRUE,
                 !.current_record = IF parse_61_field(value).ok
                                    THEN Extend(kept, parse_61_field(value).fields)
                                    ELSE kept]

\* the loop body reading an untagged line as the continuation of a narrative
ProcessLine_Continuation(m, raw_line, order, now) ==
    LET counted == [m EXCEPT !.line_number = @ + 1]
        caps    == Captures(Trim(raw_line))
    IN IF Trim(raw_line) = <<>> THEN counted
       ELSE IF ~caps.matched
       THEN [counted EXCEPT !.current_record = Extend(@, parse_86_field(Trim(raw_line)).fields)]
       ELSE IF caps.tag = Lit("20")
       THEN [counted EXCEPT !.current_record = Insert(@, Lit("Reference"), caps.value),
                            !.has_61_field = FALSE]
       ELSE IF caps.tag = Lit("61") THEN Arm61(counted, caps.value, order, now)
       ELSE IF caps.tag = Lit("86")
       THEN [counted EXCEPT !.current_record = Extend(@, parse_86_field(caps.value).fields)]
       ELSE counted

\* one iteration of the loop of parse_mt940_content (lines 31-81)
ProcessLine(m, raw_line, order, now) ==
    LET counted == [m EXCEPT !.line_number = @ + 1]
        caps    == Captures(Trim(raw_line))
    IN IF Trim(raw_line) = <<>> \/ ~caps.matched THEN counted
       ELSE IF caps.tag = Lit("20")
       THEN [counted EXCEPT !.current_record = Insert(@, Lit("Reference"), caps.value),
                            !.has_61_field = FALSE]
       ELSE IF caps.tag = Lit("61") THEN Arm61(counted, caps.value, order, now)
       ELSE IF caps.tag = Lit("86")
       THEN [counted EXCEPT !.current_record = Extend(@, parse_86_field(caps.value).fields)]
       ELSE counted

\* the flush after the loop (lines 84-88)
EndOfInput(m, order, now) ==
    IF m.has_61_field /\ DOMAIN m.current_record # {}
    THEN [m EXCEPT !.transactions = Flush(m, order, now)]
    ELSE m

-----------------------------------------------------------------------------
(* Converter (main.rs): the input file is read in the format named on the
   command line; records is the list the file was written from *)

\* read_transactions of the converter: skip_validation only prints a warning
ConverterReadTransactions(file, format, skip_validation) ==
    IF ~file.exists THEN Err("Box", "cannot open file")
    ELSE IF format = "Csv"
    THEN (IF CsvParseRecords(file.content).kind = "Err"
          THEN Err("Box", CsvParseRecords(file.content).msg)
          ELSE CsvParseRecords(file.content))
    ELSE IF format = "Txt"
    THEN (IF TextParseRecords(file.content).kind = "Err"
          THEN Err("Box", TextParseRecords(file.content).msg)
          ELSE TextParseRecords(file.content))
    ELSE IF Len(file.content) < 4 THEN Err("Box", "file too small for the binary format")
    ELSE IF BinaryParseRecords(file.content).kind = "Err"
    THEN Err("Box", BinaryParseRecords(file.content).msg)
    ELSE BinaryParseRecords(file.content)

\* a valid transfer and one record against each business rule
ConverterTxs ==
    {Transaction(1, "Transfer", 5, 6, 7, 1001, "Success", <<"b">>),
     Transaction(1, "Deposit", 5, 6, 7, 1001, "Success", <<"b">>),
     Transaction(1, "Withdrawal", 5, 6, 7, 1001, "Success", <<"b">>),
     Transaction(1, "Transfer", 0, 6, 7, 1001, "Success", <<"b">>),
     Transaction(1, "Transfer", 5, 0, 7, 1001, "Success", <<"b">>)}

InitConverter ==
    /\ pc = "start"
    /\ records \in ListsAround(ConverterTxs)
    /\ raw = <<>>
    /\ wire = <<>>
    /\ result = NoResult
    /\ result2 = NoResult
    /\ mt = NoMt940
    /\ cmp \in {[pc |-> "idle", input_format |-> f, skip_validation |-> sk] :
                 f \in Format, sk \in BOOLEAN}

\* the input file is produced by the codec of the input format
ConverterInput ==
    /\ pc = "start"
    /\ wire' = WriteAs(cmp.input_format, records)
    /\ pc' = "file"
    /\ UNCHANGED <<records, result, result2, raw, cmp, mt>>

\* read_transactions(&args.input, &args.input_format, args.skip_validation)
ConverterRead ==
    /\ pc = "file"
    /\ result' = ConverterReadTransactions(File(wire), cmp.input_format, cmp.skip_validation)
    /\ pc' = "read"
    /\ UNCHANGED <<records, wire, result2, raw, cmp, mt>>

NextConverter == ConverterInput \/ ConverterRead

SpecConverter == InitConverter /\ [][NextConverter]_vars

-----------------------------------------------------------------------------
(* transactions_equal applied to two transactions; records holds tx1, raw holds tx2 *)

\* a transaction and the ones that differ from it in exactly one field
EqualTxs ==
    {Transaction(1, "Transfer", 5, 6, 7, 1001, "Success", <<"b">>),
     Transaction(2, "Transfer", 5, 6, 7, 1001, "Success", <<"b">>),
     Transaction(1, "Withdrawal", 5, 6, 7, 1001, "Success", <<"b">>),
     Transaction(1, "Transfer", 4, 6, 7, 1001, "Success", <<"b">>),
     Transaction(1, "Transfer", 5, 4, 7, 1001, "Success", <<"b">>),
     Transaction(1, "Transfer", 5, 6, 8, 1001, "Success", <<"b">>),
     Transaction(1, "Transfer", 5, 6, 7, 1002, "Success", <<"b">>),
     Transaction(1, "Transfer", 5, 6, 7, 1001, "Failure", <<"b">>),
     Transaction(1, "Transfer", 5, 6, 7, 1001, "Success", <<"a">>)}

InitEqual ==
    /\ pc = "start"
    /\ records \in {<<t>> : t \in EqualTxs}
    /\ raw \in {<<t>> : t \in EqualTxs}
    /\ wire = <<>>
    /\ result = NoResult
    /\ result2 = NoResult
    /\ mt = NoMt940
    /\ cmp \in {[pc |-> "idle", args |-> Args("Csv", "Csv", d, st), equal |-> FALSE] :
                 d \in BOOLEAN, st \in BOOLEAN}

\* transactions_equal(&tx1, &tx2, &args)
TransactionsEqual ==
    /\ pc = "start"
    /\ cmp' = [cmp EXCEPT !.pc = "compared",
                          !.equal = transactions_equal(records[1], raw[1], cmp.args)]
    /\ pc' = "compared"
    /\ UNCHANGED <<records, wire, result, result2, raw, mt>>

SpecEqual == InitEqual /\ [][TransactionsEqual]_vars

-----------------------------------------------------------------------------
(* MT940 parsing, one line per step; raw holds the lines the input was made of *)

MaxTx == 2

\* what Utc::now() may return
Clock == {Timestamp(20759, 1), Timestamp(20759, 2)}

StatementLine == <<":","2","0",":","R">>

\* :61: lines: a debit and a credit with a customer reference, a debit without
\* one, a date that is not numeric, and a value without a D/C marker
Line61(k) ==
    CASE k = "debit"      -> <<":","6","1",":","2","3","0","4","2","0","0","4","2","0","D","1","2",",","0","1","N","T","R","F","/","/","R","1">>
      [] k = "credit"     -> <<":","6","1",":","2","3","0","4","2","0","C","2","5",",","5","N","/","/","R","2">>
      [] k = "plain"      -> <<":","6","1",":","2","3","0","4","2","0","0","4","2","0","D","7",",">>
      [] k = "undated"    -> <<":","6","1",":","2","3","A","4","2","0","0","4","2","0","D","1",".","0","0","N","/","/","R","3">>
      [] k = "no_marker"  -> <<":","6","1",":","2","3","0","4","2","0","0","4","2","0","X","1","2",",","0","1","N","T","R","F">>
      [] k = "bad_day"    -> <<":","6","1",":","3","2","0","4","2","3","0","4","2","0","D","3",",","N","/","/","R","4">>
      [] k = "old"        -> <<":","6","1",":","0","1","0","1","9","9","0","1","0","1","C","4",",","N","/","/","R","5">>

\* :86: lines: a narrative with an EREF, BIC values of each kind, an original amount
Line86(k) ==
    CASE k = "eref"  -> <<":","8","6",":","/","R","E","M","I","/","P","/","E","R","E","F","/","E","1">>
      [] k = "citi"  -> <<":","8","6",":","/","C","B","I","C","/","X","C","I","T","I">>
      [] k = "db"    -> <<":","8","6",":","/","D","B","I","C","/","D","B","X">>
      [] k = "other" -> <<":","8","6",":","/","D","B","I","C","/","A","B">>
      [] k = "oamt"  -> <<":","8","6",":","/","O","A","M","T","/","5">>

\* a :61: line alone or followed by one :86: line
Blocks ==
    {<<Line61(k)>> : k \in {"debit", "credit", "plain", "undated", "no_marker"}}
    \cup {<<Line61("debit"), Line86(n)>> : n \in {"eref", "citi", "db", "other"}}
    \cup {<<Line61("credit"), Line86("other")>>, <<Line61("no_marker"), Line86("oamt")>>}

\* one :20: line followed by 1..MaxTx blocks
Mt940Inputs ==
    {<<StatementLine>> \o Concat(bs) : bs \in UNION {[1..k -> Blocks] : k \in 1..MaxTx}}

InitMt940 ==
    /\ pc = "reading"
    /\ raw \in Mt940Inputs
    /\ wire = Join(raw, <<NL>>)
    /\ mt = NoMt940
    /\ records = <<>>
    /\ result = NoResult
    /\ result2 = NoResult
    /\ cmp = NoComparer

\* the iteration order and the clock matter only to a step that flushes
FlushOrders(m, flushes) == IF flushes THEN IterationOrders(m.current_record) ELSE {<<>>}

FlushClock(m, flushes) ==
    IF flushes /\ ~HasField(m.current_record, "Date") THEN Clock ELSE {Timestamp(0, 0)}

Mt940Line ==
    /\ pc = "reading"
    /\ mt.line_number < Len(Lines(wire))
    /\ \E line \in {Lines(wire)[mt.line_number + 1]} :
        \E flushes \in {mt.has_61_field /\ Captures(Trim(line)).tag = Lit("61")} :
          \E now \in FlushClock(mt, flushes), order \in FlushOrders(mt, flushes) :
            mt' = ProcessLine(mt, line, order, now)
    /\ UNCHANGED <<pc, records, wire, result, result2, raw, cmp>>

Mt940End ==
    /\ pc = "reading"
    /\ mt.line_number = Len(Lines(wire))
    /\ \E now \in FlushClock(mt, mt.has_61_field), order \in FlushOrders(mt, mt.has_61_field) :
            mt' = EndOfInput(mt, order, now)
    /\ result' = Ok(mt'.transactions)
    /\ pc' = "parsed"
    /\ UNCHANGED <<records, wire, result2, raw, cmp>>

NextMt940 == Mt940Line \/ Mt940End

SpecMt940 == InitMt940 /\ [][NextMt940]_vars

-----------------------------------------------------------------------------
(* MT940 statements whose lines are drawn freely: :61: lines with a real, an
   impossible and a non-numeric date, a narrative, a second :20: line, another
   tag, a continuation line, a blank line and an indented narrative *)

MaxLines == 3

OtherLine(k) ==
    CASE k = "statement"    -> <<":","2","0",":","S">>
      [] k = "account"      -> <<":","2","5",":","A">>
      [] k = "continuation" -> <<"/","E","R","E","F","/","E","9">>
      [] k = "blank"        -> <<" ">>
      [] k = "indented"     -> <<" ">> \o Line86("citi")

LinePool ==
    {Line61(k) : k \in {"debit", "credit", "bad_day", "old", "undated"}}
    \cup {Line86("eref")}
    \cup {OtherLine(k) : k \in {"statement", "account", "continuation", "blank", "indented"}}

InitMt940Lines ==
    /\ pc = "reading"
    /\ raw \in {<<StatementLine>> \o ls : ls \in UNION {[1..k -> LinePool] : k \in 1..MaxLines}}
    /\ wire = Join(raw, <<NL>>)
    /\ mt = NoMt940
    /\ records = <<>>
    /\ result = NoResult
    /\ result2 = NoResult
    /\ cmp = NoComparer

SpecMt940Lines == InitMt940Lines /\ [][NextMt940]_vars

-----------------------------------------------------------------------------
(* The same MT940 input parsed twice; result2 keeps the outcome of the first call *)

InitMt940Twice ==
    /\ pc = "reading"
    /\ raw \in {<<StatementLine>> \o b : b \in Blocks}
    /\ wire = Join(raw, <<NL>>)
    /\ mt = NoMt940
    /\ records = <<>>
    /\ result = NoResult
    /\ result2 = NoResult
    /\ cmp = NoComparer

\* a second call of parse_records on the same content: new transactions, a new
\* field map and a new iteration order
Mt940Again ==
    /\ pc = "parsed"
    /\ result2 = NoResult
    /\ result2' = result
    /\ result' = NoResult
    /\ mt' = NoMt940
    /\ pc' = "reading"
    /\ UNCHANGED <<records, wire, raw, cmp>>

NextMt940Twice == Mt940Line \/ Mt940End \/ Mt940Again

SpecMt940Twice == InitMt940Twice /\ [][NextMt940Twice]_vars

-----------------------------------------------------------------------------
(* Properties *)

\* C1: Binary round trip. parse_records(write_records(list)) returns Ok with a
\* list equal to the original, for every description of at most 1 MiB
\* (including leading/trailing whitespace and double quotes).
C1_BinaryRoundTrip ==
    (pc = "parsed" /\ \A i \in 1..Len(records) : Len(records[i].description) <= MAX_DESC_LEN)
        => result = Ok(records)

\* C7: Binary end of stream. parse_records returns Ok only when the input ends
\* exactly at a record boundary; an input that ends inside a record is an error.
C7_EofOnlyAtBoundary ==
    pc = "parsed" =>
        /\ result.kind = "Ok" => Len(wire) \in RecordBoundaries(records)
        /\ Len(wire) \notin RecordBoundaries(records) => result.kind = "Err"

\* C2: CSV round trip. For every list that respects the CSV invariants and every
\* description, parse_records(write_records(list)) is Ok with the original list.
C2_CsvRoundTrip ==
    pc \in {"parsed", "converted", "reparsed"} => result = Ok(records)

HasAll(desc, chars) == \A c \in chars : \E i \in 1..Len(desc) : desc[i] = c

\* C4: CSV quote safety. A description containing a double quote, a comma and an
\* embedded newline comes back from write_records + parse_records unchanged.
C4_CsvQuoteSafety ==
    pc \in {"parsed", "converted", "reparsed"} =>
        \A i \in 1..Len(records) :
            HasAll(records[i].description, {QUOTE, COMMA, NL}) =>
                /\ result.kind = "Ok"
                /\ Len(result.records) = Len(records)
                /\ result.records[i].description = records[i].description

\* C3: Text round trip. For every list that respects the Text invariants and every
\* description (double quotes, backslashes, '#', ':' or line breaks included),
\* parse_records(write_records(list)) is Ok with the original list.
C3_TextRoundTrip ==
    pc = "parsed" => result = Ok(records)

ListsDiffer(txs1, txs2, args) ==
    \/ Len(txs1) # Len(txs2)
    \/ \E i \in 1..Len(txs1) : ~transactions_equal(txs1[i], txs2[i], args)

\* C5: Comparer exit status. Whenever the two parsed lists differ (different counts,
\* or a pair at the same index unequal under the active ignore flags) the comparer
\* exits with status 2, and it exits with status 0 only when the lists are identical.
C5_ComparerExitStatus ==
    (cmp.pc = "exited" /\ result.kind = "Ok" /\ result2.kind = "Ok") =>
        /\ ListsDiffer(result.records, result2.records, cmp.args) => cmp.exit_code = 2
        /\ cmp.exit_code = 0 => ~ListsDiffer(result.records, result2.records, cmp.args)

\* C6: Cross-format consistency. For every list L that CsvParser::parse_records
\* returns Ok for, writing L with BinaryParser::write_records and parsing the bytes
\* with BinaryParser::parse_records yields a list equal to L, and the comparer
\* judges the two lists identical.
C6_CsvToBinaryConsistent ==
    pc = "reparsed" =>
        /\ result2 = Ok(result.records)
        /\ result2.kind = "Ok" =>
             ~ListsDiffer(result.records, result2.records, Args("Csv", "Bin", FALSE, FALSE))

IntegerAtMostZero(field) ==
    LET a == ParseI64(field) IN a.ok /\ a.value <= 0

MentionsPositive(msg) ==
    msg \in {"AMOUNT must be positive in CSV format", "AMOUNT must be positive"}

\* the row splits into eight fields and every field other than AMOUNT decodes
RowDecodes(row) ==
    LET l == CsvParseLine(Join(row, <<COMMA>>))
        f == l.fields
    IN /\ l.ok
       /\ Len(f) = 8
       /\ ParseU64(f[1]).ok
       /\ \E t \in TransactionType : TxTypeToken(t) = f[2]
       /\ ParseU64(f[3]).ok
       /\ ParseU64(f[4]).ok
       /\ ParseU64(f[6]).ok
       /\ \E st \in TransactionStatus : StatusToken(st) = f[7]
       /\ ~CsvUnescapeDescription(f[8]).panic

\* C8 as stated: a data row whose AMOUNT is an integer <= 0 always returns
\* ParserError::Parse mentioning "positive", whatever the other fields contain.
C8_AmountSignAlways ==
    (pc = "parsed" /\ IntegerAtMostZero(raw[5])) =>
        /\ result.kind = "Err"
        /\ result.error = "Parse"
        /\ MentionsPositive(result.msg)

\* C8: CSV amount sign. A data row whose AMOUNT is an integer <= 0 is never
\* returned as Ok, and when the row splits into eight fields and its other
\* fields decode (the description not being a lone double quote) the result is
\* ParserError::Parse mentioning "positive".
C8_AmountSign ==
    (pc = "parsed" /\ IntegerAtMostZero(raw[5])) =>
        /\ result.kind # "Ok"
        /\ RowDecodes(raw) => (/\ result.kind = "Err"
                               /\ result.error = "Parse"
                               /\ MentionsPositive(result.msg))

C8_Witness ==
    /\ pc = "parsed"
    /\ raw[5] = <<"0">>
    /\ RowDecodes(raw)
    /\ raw[2] = Str("DEPOSIT") /\ raw[3] = <<"0">>
    /\ result = Err("Parse", "AMOUNT must be positive in CSV format")

IsBlank(l) == Trim(l) = <<>>
IsComment(l) == StartsWith(Trim(l), HASH)
IsKeyValue(l) == ~IsBlank(l) /\ ~IsComment(l) /\ TextParseKeyValue(Trim(l)).ok

\* first line of the block (run of lines without a blank line) that holds line d
BlockStart(lines, d) ==
    LET blanks == {j \in 1..(d - 1) : IsBlank(lines[j])} IN
    IF blanks = {} THEN 1 ELSE 1 + CHOOSE j \in blanks : \A k \in blanks : k <= j

\* line d repeats the key of an earlier line of its block
RepeatsKey(lines, d) ==
    /\ IsKeyValue(lines[d])
    /\ \E j \in BlockStart(lines, d)..(d - 1) :
         /\ IsKeyValue(lines[j])
         /\ TextParseKeyValue(Trim(lines[j])).key = TextParseKeyValue(Trim(lines[d])).key

HasDuplicateKey(lines) == \E d \in 1..Len(lines) : RepeatsKey(lines, d)

FirstRepeat(lines) ==
    CHOOSE d \in 1..Len(lines) :
        RepeatsKey(lines, d) /\ \A e \in 1..(d - 1) : ~RepeatsKey(lines, e)

\* the blocks before the one of line d parse, and every line of that block before
\* d is a comment or a KEY: VALUE line
CleanBefore(lines, d) ==
    LET b == BlockStart(lines, d) IN
    /\ TextParseRecords(Concat([i \in 1..(b - 1) |-> lines[i] \o <<NL>>])).kind = "Ok"
    /\ \A j \in b..(d - 1) : IsComment(lines[j]) \/ IsKeyValue(lines[j])

\* C9 as stated: a record holding the same key twice always returns
\* ParserError::Parse mentioning "duplicate", whatever its other lines are.
C9_DuplicateAlways ==
    (pc = "parsed" /\ HasDuplicateKey(raw)) => result = Err("Parse", "duplicate field")

\* C9: Text duplicate-key detection. An input in which a record holds the same key
\* twice always returns ParserError::Parse, and the message is the "duplicate" one
\* when the records before it parse and every line of the record before the
\* repeated key is a comment or a well-formed KEY: VALUE line.
C9_DuplicateKey ==
    (pc = "parsed" /\ HasDuplicateKey(raw)) =>
        /\ result.kind = "Err"
        /\ result.error = "Parse"
        /\ CleanBefore(raw, FirstRepeat(raw)) => result.msg = "duplicate field"

C9_Witness ==
    /\ pc = "parsed"
    /\ HasDuplicateKey(raw)
    /\ BlockStart(raw, FirstRepeat(raw)) > 8
    /\ CleanBefore(raw, FirstRepeat(raw))
    /\ result = Err("Parse", "duplicate field")

BusinessRules(tx) ==
    /\ tx.amount > 0
    /\ tx.tx_type = "Deposit" => tx.from_user_id = 0
    /\ tx.tx_type = "Withdrawal" => tx.to_user_id = 0
    /\ tx.tx_type = "Transfer" => (tx.from_user_id # 0 /\ tx.to_user_id # 0)

\* the CSV and Text half of C10: what a CSV or Text read returns as Ok obeys the rules
ReadRulesHold ==
    (pc = "parsed" /\ result.kind = "Ok") =>
        \A i \in 1..Len(result.records) : BusinessRules(result.records[i])

\* C10: Business-rule invariant on read, the Binary half. BinaryParser::parse_records
\* enforces none of the rules and accepts any well-framed record: every list that
\* write_records framed is returned as Ok, one record per written record, with the
\* fields the rules look at unchanged.
C10_BinaryAcceptsWellFramed ==
    (pc = "parsed" /\ \A i \in 1..Len(records) : Len(records[i].description) <= MAX_DESC_LEN) =>
        /\ result.kind = "Ok"
        /\ Len(result.records) = Len(records)
        /\ \A i \in 1..Len(records) :
             /\ result.records[i].tx_type = records[i].tx_type
             /\ result.records[i].from_user_id = records[i].from_user_id
             /\ result.records[i].to_user_id = records[i].to_user_id
             /\ result.records[i].amount = records[i].amount

\* the usize length len (eight bytes) is above MAX_DESC_LEN
LenExceedsMax(len) ==
    \/ SubSeq(len, 1, 4) # <<0, 0, 0, 0>>
    \/ len[5] > 0
    \/ len[6] * 65536 + len[7] * 256 + len[8] > MAX_DESC_LEN

\* C11: Binary write cap. write_to returns a Parse error mentioning "too long" for
\* every description longer than 1,048,576 bytes, lengths of 2^32 and above
\* included, and never writes a desc_len field that differs from the true length.
C11_BinaryWriteCap ==
    pc = "header_written" =>
        /\ LenExceedsMax(raw) => result = Err("Parse", "Description too long")
        /\ result.kind = "Ok" =>
             (SubSeq(raw, 1, 4) = <<0, 0, 0, 0>> /\ SubSeq(wire.header, 51, 54) = AsU32(raw))

HeaderWellFormed(h) ==
    /\ h.magic = MAGIC
    /\ h.tx_type \in {0, 1, 2}
    /\ h.status \in {0, 1, 2}
    /\ SizeMatches(h.record_size, h.desc_len)

\* C12 as stated: every record whose desc_len field exceeds 1,048,576 is rejected
\* with a Parse error mentioning "too long".
C12_ReadCapAlways ==
    (pc = "parsed" /\ LenExceedsMax(<<0, 0, 0, 0>> \o raw.desc_len)) =>
        result = Err("Parse", "Description too long")

\* C12: Binary read cap. A record whose desc_len field exceeds 1,048,576 is always
\* rejected with a Parse error; the error is the "too long" one when the magic, the
\* type and status bytes are valid and record_size equals 46 + desc_len.
C12_BinaryReadCap ==
    (pc = "parsed" /\ LenExceedsMax(<<0, 0, 0, 0>> \o raw.desc_len)) =>
        /\ result.kind = "Err"
        /\ result.error = "Parse"
        /\ HeaderWellFormed(raw) => result.msg = "Description too long"

C12_Witness ==
    /\ pc = "parsed"
    /\ raw.desc_len = <<0, 16, 0, 1>>
    /\ HeaderWellFormed(raw)
    /\ result = Err("Parse", "Description too long")

\* the read half of C13: a header that from_read accepted has record_size = 46 + desc_len
ReadSizeHolds ==
    (pc = "parsed" /\ result.kind = "Ok" /\ result.records # <<>>) =>
        SizeMatches(raw.record_size, raw.desc_len)

\* C13: Binary size invariant, the write half. Every record written by write_to
\* carries record_size = 46 + the byte length of its description.
C13_BinarySizeWritten ==
    (pc = "header_written" /\ result.kind = "Ok") =>
        /\ SubSeq(raw, 1, 4) = <<0, 0, 0, 0>>
        /\ SizeMatches(SubSeq(wire.header, 5, 8), AsU32(raw))

\* C14: No panic on malformed input. parse_records returns Ok or Err for every
\* input, a description that is one double-quote character included.
C14_NoPanic ==
    pc = "parsed" => result.kind \in {"Ok", "Err"}

\* C15: CSV header. For every input with at least one line, parse_records returns a
\* Parse error unless the first line is exactly the text
\* TX_ID,TX_TYPE,FROM_USER_ID,TO_USER_ID,AMOUNT,TIMESTAMP,STATUS,DESCRIPTION.
C15_CsvHeaderExact ==
    (pc = "parsed" /\ Join(raw.columns, <<COMMA>>) # CsvHeaderLine) =>
        (result.kind = "Err" /\ result.error = "Parse")

\* the index of the :61: line that opened the record pending after n lines
Is61(line) == Len(line) >= 4 /\ SubSeq(line, 1, 4) = <<":", "6", "1", ":">>

Opening61(n) == CHOOSE i \in 1..n : Is61(raw[i]) /\ \A j \in (i + 1)..n : ~Is61(raw[j])

\* what is written in the :61: lines that have a real date, a marker and an amount
\* of at most two decimals: the marker and the amount in minor units
Written(line) ==
    CASE line = Line61("debit")  -> [dc |-> "D", cents |-> 1201]
      [] line = Line61("credit") -> [dc |-> "C", cents |-> 2550]
      [] line = Line61("plain")  -> [dc |-> "D", cents |-> 700]
      [] line = Line61("old")    -> [dc |-> "C", cents |-> 400]

WellFormed61 == {Line61("debit"), Line61("credit"), Line61("plain")}

\* a step that pushes a transaction
Pushes == Len(mt'.transactions) = Len(mt.transactions) + 1

Pushed == mt'.transactions[Len(mt'.transactions)]

BicMeansTransfer(fields) ==
    /\ HasField(fields, "BIC")
    /\ \/ Find(Field(fields, "BIC"), <<"C", "I", "T", "I">>) # 0
       \/ (Len(Field(fields, "BIC")) >= 2 /\ SubSeq(Field(fields, "BIC"), 1, 2) = <<"D", "B">>)

\* C17: MT940 type inference. A pushed transaction with marker D is a Transfer
\* exactly when a BIC field is present that contains "CITI" or starts with "DB" and a
\* Withdrawal in every other D case, also without a BIC field; with marker C it is
\* a Deposit.
C17_TypeInference ==
    [][(Pushes /\ HasField(mt.current_record, "DC")) =>
        /\ Field(mt.current_record, "DC") = <<"D">> =>
              Pushed.tx_type = (IF BicMeansTransfer(mt.current_record)
                                THEN "Transfer" ELSE "Withdrawal")
        /\ Field(mt.current_record, "DC") = <<"C">> => Pushed.tx_type = "Deposit"]_vars

\* a :61: line whose value has no D and no C at or after position 6
LacksMarker(line) == Is61(line) /\ \A i \in 11..Len(line) : line[i] \notin {"D", "C"}

\* C18: MT940 missing D/C marker. When the value of a :61: line holds no D or C at
\* or after position 6, parse_records returns an error, not Ok.
C18_MissingMarkerFatal ==
    (pc = "parsed" /\ \E i \in 1..Len(raw) : LacksMarker(raw[i])) => result.kind = "Err"

\* the input is a :20: line followed by well-formed :61: lines and their :86: lines
WellFormedStatement == \A i \in 1..Len(raw) : Is61(raw[i]) => raw[i] \in WellFormed61

\* the indices of the :61: lines, in input order
Nth61(n) == CHOOSE i \in 1..Len(raw) :
                Is61(raw[i]) /\ Cardinality({j \in 1..i : Is61(raw[j])}) = n

\* the keys a :86: line can add to the accumulator
NarrativeKeys == {Lit("EREF"), Lit("BIC"), Lit("Description"), Lit("OriginalAmount")}

\* C19: MT940 flush protocol. Over one :20: line followed by k >= 1 well-formed
\* :61: lines, each with optional :86: lines: a :61: line that arrives while a
\* transaction is pending pushes the pending one and leaves an accumulator without
\* the narrative of the pushed one; the end of input pushes the last; the result
\* holds exactly k transactions, the i-th with the marker and amount of the i-th :61:.
C19_FlushProtocol ==
    /\ [][(WellFormedStatement /\ pc = "reading" /\ mt.has_61_field
           /\ mt.line_number < Len(raw) /\ Is61(raw[mt.line_number + 1])) =>
            /\ Pushes
            /\ DOMAIN mt'.current_record \cap NarrativeKeys = {}
            /\ mt'.current_record[Lit("Reference")] = <<>>]_vars
    /\ []((WellFormedStatement /\ pc = "parsed") =>
            /\ result.kind = "Ok"
            /\ Len(result.records) = Cardinality({i \in 1..Len(raw) : Is61(raw[i])})
            /\ \A n \in 1..Len(result.records) :
                  result.records[n].amount =
                      (IF Written(raw[Nth61(n)]).dc = "D" THEN -1 ELSE 1)
                      * Written(raw[Nth61(n)]).cents)

C19_Witness ==
    /\ pc = "parsed"
    /\ raw = <<StatementLine, Line61("debit"), Line86("eref"), Line61("credit")>>
    /\ Len(result.records) = 2
    /\ result.records[1].amount = -1201
    /\ result.records[2].amount = 2550

\* C20: MT940 tx_id determinism. Two calls of parse_records on the same input return
\* transactions with equal tx_id, whether the id comes from EREF, from
\* CustomerReference or from the whole field map.
C20_TxIdDeterminism ==
    (pc = "parsed" /\ result2.kind = "Ok") =>
        /\ Len(result.records) = Len(result2.records)
        /\ \A i \in 1..Len(result.records) :
              result.records[i].tx_id = result2.records[i].tx_id

\* the part of C20 that holds: ids taken from EREF or CustomerReference
C20_ReferenceIdsAgree ==
    (pc = "parsed" /\ result2.kind = "Ok"
     /\ raw[2] \notin {Line61("plain"), Line61("no_marker")}) =>
        /\ Len(result.records) = Len(result2.records)
        /\ \A i \in 1..Len(result.records) :
              result.records[i].tx_id = result2.records[i].tx_id

\* C21: MT940 tx_id bound. Every transaction returned by parse_records has a
\* tx_id below 1,000,000,000, whichever field the id was folded from.
C21_TxIdBound ==
    pc = "parsed" =>
        \A i \in 1..Len(result.records) :
            result.records[i].tx_id >= 0 /\ result.records[i].tx_id < 1000000000

\* an id folded from the Debug text of the whole field map, past the 64-bit wrap
C21_Witness ==
    /\ pc = "parsed"
    /\ raw = <<StatementLine, Line61("plain")>>
    /\ Len(result.records) = 1
    /\ result.records[1].tx_id = 487481100

\* a step that tries to turn the accumulator into a transaction: a :61: line that
\* arrives while one is pending, or the end of the input
Flushing ==
    /\ pc = "reading" /\ mt.has_61_field /\ DOMAIN mt.current_record # {}
    /\ mt.line_number = Len(raw) \/ Is61(raw[mt.line_number + 1])

\* six digits DDMMYY that name a real day, and that day
IsRealDate(d) ==
    /\ Len(d) = 6 /\ AllDigits(d)
    /\ DigitsValue(SubSeq(d, 3, 4)) \in 1..12
    /\ DigitsValue(SubSeq(d, 1, 2)) \in
          1..DaysInMonth((IF DigitsValue(SubSeq(d, 5, 6)) >= 50 THEN 1900 ELSE 2000)
                         + DigitsValue(SubSeq(d, 5, 6)), DigitsValue(SubSeq(d, 3, 4)))

NoonOf(d) ==
    Timestamp(DaysFromEpoch((IF DigitsValue(SubSeq(d, 5, 6)) >= 50 THEN 1900 ELSE 2000)
                            + DigitsValue(SubSeq(d, 5, 6)),
                            DigitsValue(SubSeq(d, 3, 4)), DigitsValue(SubSeq(d, 1, 2))),
              NoonMillis)

\* C22: MT940 timestamp fallback. A pending :61: transaction with an amount is
\* pushed whatever its date: with noon UTC of the day when the six digits name a
\* real day (YY >= 50 in 19YY, YY < 50 in 20YY), with the current time when the
\* date is absent or names no real day.
C22_TimestampFallback ==
    [][(Flushing /\ HasField(mt.current_record, "AmountRaw")) =>
        /\ Pushes
        /\ Pushed.timestamp \in
              (IF HasField(mt.current_record, "Date")
                  /\ IsRealDate(Field(mt.current_record, "Date"))
               THEN {NoonOf(Field(mt.current_record, "Date"))}
               ELSE Clock)]_vars

\* the part of C22 that holds: real dates and absent dates
C22_RealOrAbsentDate ==
    [][(Flushing /\ HasField(mt.current_record, "AmountRaw")
        /\ (HasField(mt.current_record, "Date") => IsRealDate(Field(mt.current_record, "Date")))) =>
        /\ Pushes
        /\ Pushed.timestamp \in
              (IF HasField(mt.current_record, "Date")
               THEN {NoonOf(Field(mt.current_record, "Date"))}
               ELSE Clock)]_vars

\* every :61: line of the input has a real date, a marker and an amount
AllWellFormed61 ==
    \A i \in 1..Len(raw) : Is61(raw[i]) => raw[i] \in WellFormed61 \cup {Line61("old")}

\* C27: MT940 no lost transaction. Whatever lines are interleaved, the result holds
\* one transaction per well-formed :61: line, in input order, each with the
\* marker and amount of its line; a :20: line between them discards nothing.
C27_NoLostTransaction ==
    (pc = "parsed" /\ AllWellFormed61) =>
        /\ Len(result.records) = Cardinality({i \in 1..Len(raw) : Is61(raw[i])})
        /\ \A n \in 1..Len(result.records) :
              result.records[n].amount =
                  (IF Written(raw[Nth61(n)]).dc = "D" THEN -1 ELSE 1)
                  * Written(raw[Nth61(n)]).cents

\* the part of C27 that holds: statements with no :20: line after the first
C27_SingleStatement ==
    (pc = "parsed" /\ AllWellFormed61
     /\ \A i \in 2..Len(raw) : raw[i] # OtherLine("statement")) =>
        /\ Len(result.records) = Cardinality({i \in 1..Len(raw) : Is61(raw[i])})
        /\ \A n \in 1..Len(result.records) :
              result.records[n].amount =
                  (IF Written(raw[Nth61(n)]).dc = "D" THEN -1 ELSE 1)
                  * Written(raw[Nth61(n)]).cents

\* the fields of the :61: line at index from and of the :86: lines up to index to
RECURSIVE Gathered(_, _)
Gathered(from, to) ==
    LET caps == Captures(Trim(raw[to]))
    IN IF to = from
       THEN (IF parse_61_field(caps.value).ok THEN parse_61_field(caps.value).fields ELSE EmptyMap)
       ELSE IF caps.matched /\ caps.tag = Lit("86")
       THEN Extend(Gathered(from, to - 1), parse_86_field(caps.value).fields)
       ELSE Gathered(from, to - 1)

\* C28: MT940 accumulator isolation. When a transaction is built, every field of
\* the accumulator other than Reference comes from the :61: line that started it
\* or from a :86: line after that line; nothing is left of earlier lines.
C28_AccumulatorIsolation ==
    Flushing =>
        \A k \in DOMAIN mt.current_record \ {Lit("Reference")} :
            \E own \in {Gathered(Opening61(mt.line_number), mt.line_number)} :
                k \in DOMAIN own /\ own[k] = mt.current_record[k]

\* the part of C28 that holds: one :20: line, and no :86: line before the first :61:
C28_IsolatedAfterFlush ==
    (Flushing /\ Is61(raw[2]) /\ \A i \in 2..Len(raw) : raw[i] # OtherLine("statement")) =>
        \A k \in DOMAIN mt.current_record \ {Lit("Reference")} :
            \E own \in {Gathered(Opening61(mt.line_number), mt.line_number)} :
                k \in DOMAIN own /\ own[k] = mt.current_record[k]

\* the tag of a text that begins with :NN: or :NNA:, and <<>> for any other text
LeadingTag(t) ==
    IF Len(t) >= 4 /\ t[1] = ":" /\ AllDigits(SubSeq(t, 2, 3)) /\ t[4] = ":"
    THEN SubSeq(t, 2, 3)
    ELSE IF Len(t) >= 5 /\ t[1] = ":" /\ AllDigits(SubSeq(t, 2, 3))
            /\ (\E k \in 1..26 : UpperCase[k] = t[4]) /\ t[5] = ":"
    THEN SubSeq(t, 2, 4)
    ELSE <<>>

TransactionTags == {<<"2", "0">>, <<"6", "1">>, <<"8", "6">>}

\* C29: MT940 untagged lines. A line that does not begin with :NN: or :NNA:
\* (a continuation line, a blank line, an indented tag) and a tagged line other
\* than :20:, :61:, :86: leave the field accumulator, the pending flag and the
\* output list unchanged.
C29_UntaggedLiteral ==
    [][(pc = "reading" /\ mt.line_number < Len(raw)
        /\ LeadingTag(raw[mt.line_number + 1]) \notin TransactionTags) =>
        /\ mt'.current_record = mt.current_record
        /\ mt'.has_61_field = mt.has_61_field
        /\ mt'.transactions = mt.transactions]_vars

\* C29 (amended): the same frame for a line that, once its surrounding white
\* space is trimmed, does not begin with :NN: or :NNA:, or whose tag is not 20,
\* 61 or 86; the line only advances the line counter.
C29_UntaggedLineFrame ==
    [][(pc = "reading" /\ mt.line_number < Len(raw)
        /\ LeadingTag(Trim(raw[mt.line_number + 1])) \notin TransactionTags) =>
        /\ mt'.current_record = mt.current_record
        /\ mt'.has_61_field = mt.has_61_field
        /\ mt'.transactions = mt.transactions
        /\ mt'.line_number = mt.line_number + 1]_vars

\* a continuation line and a :25: line read while a transaction is pending
C29_Witness ==
    /\ pc = "reading"
    /\ raw = <<StatementLine, Line61("debit"), OtherLine("continuation"), OtherLine("account")>>
    /\ mt.line_number = 4
    /\ mt.has_61_field
    /\ mt.transactions = <<>>
    /\ ~HasField(mt.current_record, "EREF")
    /\ Field(mt.current_record, "CustomerReference") = <<"R", "1">>

\* C23: Comparer equality. transactions_equal is true exactly when tx_id, tx_type,
\* from_user_id, to_user_id, amount and timestamp are equal, status is equal or
\* ignore_status is set, and description is equal or ignore_description is set;
\* the flags hide no difference in another field.
C23_ComparerEquality ==
    pc = "compared" =>
        cmp.equal =
            (/\ records[1].tx_id = raw[1].tx_id
             /\ records[1].tx_type = raw[1].tx_type
             /\ records[1].from_user_id = raw[1].from_user_id
             /\ records[1].to_user_id = raw[1].to_user_id
             /\ records[1].amount = raw[1].amount
             /\ records[1].timestamp = raw[1].timestamp
             /\ (records[1].status = raw[1].status \/ cmp.args.ignore_status)
             /\ (records[1].description = raw[1].description \/ cmp.args.ignore_description))

\* status and description differ and both flags are set: equal
C23_Witness ==
    /\ pc = "compared"
    /\ records[1].status # raw[1].status
    /\ records[1].description # raw[1].description
    /\ cmp.args.ignore_status /\ cmp.args.ignore_description
    /\ cmp.equal

\* the business rules on the user ids, as the specification words them
BreaksIdRule(tx) ==
    \/ tx.tx_type = "Deposit" /\ tx.from_user_id # 0
    \/ tx.tx_type = "Withdrawal" /\ tx.to_user_id # 0
    \/ tx.tx_type = "Transfer" /\ (tx.from_user_id = 0 \/ tx.to_user_id = 0)

\* C24: Converter --skip-validation. A CSV or Text input holding a record that
\* breaks a business rule is read successfully when skip_validation is true and
\* rejected when it is false.
C24_SkipValidation ==
    (pc = "read" /\ cmp.input_format \in {"Csv", "Txt"}
     /\ \E i \in 1..Len(records) : BreaksIdRule(records[i])) =>
        (result.kind = "Ok") = cmp.skip_validation

\* what the converter does: such an input is rejected whatever the flag says
C24_AlwaysValidated ==
    (pc = "read" /\ cmp.input_format \in {"Csv", "Txt"}
     /\ \E i \in 1..Len(records) : BreaksIdRule(records[i])) =>
        result.kind = "Err"

\* the maximal runs of lines without a blank line that hold a KEY: VALUE line,
\* as pairs <<first, last>>
Runs(lines) ==
    {<<a, b>> \in (1..Len(lines)) \X (1..Len(lines)) :
        /\ a <= b
        /\ \A j \in a..b : ~IsBlank(lines[j])
        /\ a = 1 \/ IsBlank(lines[a - 1])
        /\ b = Len(lines) \/ IsBlank(lines[b + 1])
        /\ \E j \in a..b : ~IsComment(lines[j])}

\* the n-th run in input order
NthRun(lines, n) ==
    CHOOSE r \in Runs(lines) : Cardinality({q \in Runs(lines) : q[1] <= r[1]}) = n

\* the KEY: VALUE lines of a run, comments left out, as the fields of a record
RunFields(lines, r) ==
    LET kept == SelectSeq([j \in 1..(r[2] - r[1] + 1) |-> lines[r[1] + j - 1]],
                          LAMBDA l : ~IsComment(l))
    IN [j \in 1..Len(kept) |-> <<TextParseKeyValue(Trim(kept[j])).key,
                                 TextParseKeyValue(Trim(kept[j])).value>>]

\* every run is one record: its lines are KEY: VALUE lines with distinct keys
\* that make a valid record
ValidTextInput(lines) ==
    \A r \in Runs(lines) :
        /\ \A j \in r[1]..r[2] : IsComment(lines[j]) \/ IsKeyValue(lines[j])
        /\ \A j, k \in 1..Len(RunFields(lines, r)) :
              j # k => RunFields(lines, r)[j][1] # RunFields(lines, r)[k][1]
        /\ TextParseRecord(RunFields(lines, r)).kind = "Ok"

\* C26: Text record segmentation. Over a valid input parse_records returns one
\* record per maximal run of KEY: VALUE lines between blank lines or the ends of
\* the input, in input order; comment lines neither start, end nor split a
\* record, and blank runs and comment-only blocks give no record.
C26_TextSegmentation ==
    (pc = "parsed" /\ ValidTextInput(raw)) =>
        /\ result.kind = "Ok"
        /\ Len(result.records) = Cardinality(Runs(raw))
        /\ \A n \in 1..Len(result.records) :
              result.records[n] = TextParseRecord(RunFields(raw, NthRun(raw, n))).rec

\* a comment block, a record with a comment in its middle, a blank line, a
\* record: two records
C26_Witness ==
    /\ pc = "parsed"
    /\ raw = SegItem("comment", 1) \o SegItem("commented", 2) \o SegItem("blank", 3)
             \o SegItem("record", 4)
    /\ result.kind = "Ok"
    /\ Len(result.records) = 2
    /\ result.records[1].tx_id = 2 /\ result.records[2].tx_id = 4

\* the first record of the list whose description is longer than 1 MiB
FirstTooLong ==
    CHOOSE i \in 1..Len(raw) : LenExceedsMax(raw[i]) /\ \A j \in 1..(i - 1) : ~LenExceedsMax(raw[j])

\* what the claim says is written when record k is rejected: the records before
\* it in full, the four magic bytes of record k, nothing after
RejectedAt(k) ==
    /\ result = Err("Parse", "Description too long")
    /\ Len(wire) = k
    /\ \A j \in 1..(k - 1) :
          /\ Len(wire[j].header) = 8 + fixed_size
          /\ SubSeq(wire[j].header, 1, 4) = MAGIC
          /\ wire[j].payload_len = raw[j]
    /\ wire[k] = [header |-> MAGIC, payload_len |-> NoBytes]

\* C30: Binary writer effect on rejection. When write_records reaches a record
\* whose description exceeds 1 MiB it returns the error, having written every
\* earlier record in full and exactly the 4 magic bytes of the rejected record,
\* and nothing for later records.
C30_WriterRejection ==
    (pc = "written" /\ \E i \in 1..Len(raw) : LenExceedsMax(raw[i])) => RejectedAt(FirstTooLong)

\* the part of C30 that holds: descriptions shorter than 2^32 bytes
C30_RejectionBelow4GiB ==
    (pc = "written" /\ (\E i \in 1..Len(raw) : LenExceedsMax(raw[i]))
     /\ \A i \in 1..Len(raw) : SubSeq(raw[i], 1, 4) = <<0, 0, 0, 0>>) =>
        RejectedAt(FirstTooLong)

\* C25: Termination. Every call of parse_records on a finite input ends, and
\* ends with Ok or Err.
C25_Termination == <>(pc = "parsed" /\ result.kind \in {"Ok", "Err"})

\* the part of C25 that holds: the call ends
C25_ParseEnds == <>(pc = "parsed")

\* each iteration of the MT940 loop consumes one line, and the loop ends when
\* the lines are exhausted
C25_LineConsumed ==
    [][/\ mt'.line_number \in {mt.line_number, mt.line_number + 1}
       /\ mt'.line_number = mt.line_number => (pc' = "parsed" /\ mt.line_number = Len(raw))]_vars

====
